---- MODULE Spec2Model ----
(***************************************************************************)
(* Model of the stat-progression and synergy engine of                     *)
(* scripts/fight-club.py: apply_stat_changes, the history ledger, the      *)
(* habit/streak engine, the missed-check-in penalty and update_synergy.    *)
(*                                                                         *)
(* Conventions.                                                            *)
(*  - A JSON document is a record; a missing document or a Python None is  *)
(*    the value NoThreshold for xp_to_next_level (None and 0 are both      *)
(*    falsy in the `while xp_to_next and ...` tests of the source).        *)
(*  - Python floats rounded to 2 decimals are integers in hundredths.      *)
(*  - Calendar dates are day numbers.                                      *)
(***************************************************************************)
EXTENDS Integers, Sequences, FiniteSets, Bags, TLC

VARIABLES
    egos,          \* alter-egoes/<archetype>.json, one record per archetype
    history,       \* history.json: the ledger, in append order
    synergy,       \* synergy.json (the fight_club object)
    missions,      \* missions/{not-completed,completed}/*.json: file -> document
    rewards,       \* rewards/{locked,unlocked}/*.json: file -> document
    checkins,      \* daily-progress/<year>/<month>/*.json: date -> "alter-ego-stats"
    today,         \* datetime.date.today() as a day number
    last,          \* observation of the last step (pre-state, results)
    nOps,          \* number of handlers started so far
    waiting,       \* handlers that wait at input(): a bag of frames (their locals)
    sEgo,          \* apply_stat_changes harness: the ego_data argument
    sLast,         \* apply_stat_changes harness: last call (before, changes, delta)
    sCalls,        \* apply_stat_changes harness: number of calls so far
    sNegXp,        \* apply_stat_changes harness: a negative XP delta was requested
    lvl,           \* level-up loop of apply_stat_changes run step by step
    procs          \* two processes appending to the ledger: position, locals, file size

vars == <<egos, history, synergy, missions, rewards, checkins, today, last, nOps,
          waiting, sEgo, sLast, sCalls, sNegXp, lvl, procs>>

engineVars == <<egos, history, synergy, missions, rewards, checkins, today, last, nOps,
                waiting>>
statVars == <<sEgo, sLast, sCalls, sNegXp, lvl, procs>>

-----------------------------------------------------------------------------
(* Bounds of the model *)

MaxOps == 2
MaxCalls == 3
MaxBack == 3
MaxDay == 1
MaxAppends == 2

-----------------------------------------------------------------------------
(* Fixed configuration of the program *)

ArchetypeOrder == <<"tyler", "mr-robot", "kei">>

Archetypes == {ArchetypeOrder[i] : i \in 1..Len(ArchetypeOrder)}

SYNERGY_MAPPING == [a \in Archetypes |->
    CASE a = "tyler" -> "body"
      [] a = "mr-robot" -> "mind"
      [] a = "kei" -> "soul"]

ALTER_EGOS == [a \in Archetypes |->
    CASE a = "kei" ->
            [name |-> "Kei", prefix |-> "K",
             abilities |-> {"self-control", "peace", "wisdom", "focus",
                            "resilience", "harmony", "mindfulness", "intuition"}]
      [] a = "mr-robot" ->
            [name |-> "Mr-Robot", prefix |-> "M",
             abilities |-> {"intelligence", "logic", "adaptability", "innovation",
                            "focus", "systemization", "precision", "speed"}]
      [] a = "tyler" ->
            [name |-> "Tyler", prefix |-> "T",
             abilities |-> {"strength", "discipline", "agression", "confidence",
                            "dominance", "pain tolerance", "honor", "determination"}]]

HabitOrder == <<"no-sugar", "workout", "meditation", "reading", "coding",
                "no-fap", "no-junk-food">>

Habits == {HabitOrder[i] : i \in 1..Len(HabitOrder)}

NoThreshold == 0

-----------------------------------------------------------------------------
(* Rules documents (configs/*.json) *)

XpRules ==
    [levels |-> [k \in {"1", "2", "3"} |->
        CASE k = "1" -> [xp_to_next_level |-> 100, title |-> "Novice"]
          [] k = "2" -> [xp_to_next_level |-> 250, title |-> "Adept"]
          [] k = "3" -> [xp_to_next_level |-> NoThreshold, title |-> "Master"]],
     health_energy_overflow |->
        [overflow_reset_percentage |-> 20, overflow_bonus_to_other_stat |-> 10]]

\* the `{}` returned for a missing or unparsable rules file
NoRules == [k \in {} |-> 0]

\* load_xp_rules: the document, or {} when the file cannot be read
load_xp_rules(file_readable) == IF file_readable THEN XpRules ELSE NoRules

\* load_alter_ego() of a missing or unparsable character file
NoEgo == [k \in {} |-> 0]

\* `if ego_data:` a missing record and an empty one are both skipped
Loaded(ego_data) == DOMAIN ego_data # {}

SynergyRules ==
    [levels |-> [k \in {"1", "2", "3"} |->
        CASE k = "1" -> [xp_to_next_level |-> 100, chapter |-> "CHAPTER I",
                         description |-> "awakening"]
          [] k = "2" -> [xp_to_next_level |-> 150, chapter |-> "CHAPTER II",
                         description |-> "discipline"]
          [] k = "3" -> [xp_to_next_level |-> NoThreshold, chapter |-> "CHAPTER III",
                         description |-> "mastery"]]]

DailyProgressRules ==
    [missed_checkin_penalty |->
        [threshold_days |-> 3,
         penalties |-> [xp |-> -5, health |-> -3, energy |-> -3,
                        abilities_percent |-> -2]],
     habit_success_reward |->
        [habits |-> [h \in Habits |-> [xp_per_success |->
            CASE h = "workout" -> 10
              [] h = "reading" -> 5
              [] h = "meditation" -> 0
              [] OTHER -> 5]]],
     streak_milestone_bonus |->
        [milestones |-> [k \in {"2", "5"} |->
            CASE k = "2" -> [xp_bonus |-> 5]
              [] k = "5" -> [xp_bonus |-> 20]]]]

-----------------------------------------------------------------------------
(* Helpers *)

Max(a, b) == IF a >= b THEN a ELSE b

Abs(a) == IF a < 0 THEN -a ELSE a

RECURSIVE SumOver(_, _)
SumOver(f, S) ==
    IF S = {} THEN 0
    ELSE LET x == CHOOSE y \in S : TRUE IN f[x] + SumOver(f, S \ {x})

\* dict.get(key, default) on a rules table
LevelEntry(rules, level) ==
    IF "levels" \in DOMAIN rules /\ ToString(level) \in DOMAIN rules.levels
    THEN rules.levels[ToString(level)]
    ELSE [xp_to_next_level |-> NoThreshold]

\* xp_rules.get('health_energy_overflow', {}) with the defaults 20 and 10
OverflowConfig(rules) ==
    IF "health_energy_overflow" \in DOMAIN rules
    THEN rules.health_energy_overflow
    ELSE [overflow_reset_percentage |-> 20, overflow_bonus_to_other_stat |-> 10]

-----------------------------------------------------------------------------
(* apply_stat_changes *)

\* Variant: on a level-up the threshold of the new level is subtracted
RECURSIVE LevelUpLoop_SubtractNew(_, _, _)
LevelUpLoop_SubtractNew(ego, xp_to_next, rules) ==
    IF xp_to_next # NoThreshold /\ ego.xp_details.current_xp >= xp_to_next
    THEN LET new_level_data == LevelEntry(rules, ego.level + 1)
             ego2 == [ego EXCEPT
                        !.xp_details.current_xp = @ - new_level_data.xp_to_next_level,
                        !.level = @ + 1,
                        !.title = IF "title" \in DOMAIN new_level_data
                                  THEN new_level_data.title ELSE @,
                        !.xp_details.xp_to_next_level = new_level_data.xp_to_next_level]
         IN LevelUpLoop_SubtractNew(ego2, ego2.xp_details.xp_to_next_level, rules)
    ELSE ego

\* The level-up loop: `while xp_to_next and current_xp >= xp_to_next`
RECURSIVE LevelUpLoop(_, _, _)
LevelUpLoop(ego, xp_to_next, rules) ==
    IF xp_to_next # NoThreshold /\ ego.xp_details.current_xp >= xp_to_next
    THEN LET new_level == ego.level + 1
             new_level_data == LevelEntry(rules, new_level)
             new_title == IF "title" \in DOMAIN new_level_data
                          THEN new_level_data.title ELSE ego.title
             ego2 == [ego EXCEPT
                        !.xp_details.current_xp = @ - xp_to_next,
                        !.level = new_level,
                        !.title = new_title,
                        !.xp_details.xp_to_next_level = new_level_data.xp_to_next_level]
         IN LevelUpLoop(ego2, ego2.xp_details.xp_to_next_level, rules)
    ELSE ego

\* Variant: `if` in place of `while`, at most one level per call
ApplyXp_OneLevel(ego, xp_change, rules) ==
    LET ego1 == [ego EXCEPT !.xp_details.current_xp = @ + xp_change]
        xp_to_next == LevelEntry(rules, ego1.level).xp_to_next_level
    IN IF xp_to_next # NoThreshold /\ ego1.xp_details.current_xp >= xp_to_next
       THEN LET new_level_data == LevelEntry(rules, ego1.level + 1)
            IN [ego1 EXCEPT
                    !.xp_details.current_xp = @ - xp_to_next,
                    !.level = @ + 1,
                    !.title = IF "title" \in DOMAIN new_level_data
                              THEN new_level_data.title ELSE @,
                    !.xp_details.xp_to_next_level = new_level_data.xp_to_next_level]
       ELSE ego1

ApplyXp(ego, xp_change, rules) ==
    LET ego1 == [ego EXCEPT !.xp_details.current_xp = @ + xp_change]
    IN LevelUpLoop(ego1, LevelEntry(rules, ego1.level).xp_to_next_level, rules)

HasKey(changes, k) == k \in DOMAIN changes

\* state is [ego |-> ego_data, delta |-> delta_applied]
StepXp(st, changes, rules) ==
    IF HasKey(changes, "xp") /\ changes.xp # 0
    THEN [ego |-> ApplyXp(st.ego, changes.xp, rules),
          delta |-> [st.delta EXCEPT !.xp = changes.xp]]
    ELSE st

\* Variant: the overflow keeps the excess over max_health on top of the reset value
StepHealth_KeepExcess(st, changes, rules) ==
    IF HasKey(changes, "health") /\ changes.health # 0
    THEN LET e1 == [st.ego EXCEPT !.health_details.current_health = @ + changes.health]
             d1 == [st.delta EXCEPT !.health = changes.health]
             cfg == OverflowConfig(rules)
             excess == e1.health_details.current_health - e1.health_details.max_health
         IN IF excess >= 0
            THEN [ego |-> [e1 EXCEPT
                            !.health_details.current_health =
                                cfg.overflow_reset_percentage + excess,
                            !.energy_details.current_energy = @ + cfg.overflow_bonus_to_other_stat],
                  delta |-> [d1 EXCEPT !.energy = @ + cfg.overflow_bonus_to_other_stat]]
            ELSE [ego |-> e1, delta |-> d1]
    ELSE st

StepHealth(st, changes, rules) ==
    IF HasKey(changes, "health") /\ changes.health # 0
    THEN LET e1 == [st.ego EXCEPT !.health_details.current_health = @ + changes.health]
             d1 == [st.delta EXCEPT !.health = changes.health]
             cfg == OverflowConfig(rules)
         IN IF e1.health_details.current_health >= e1.health_details.max_health
            THEN [ego |-> [e1 EXCEPT
                            !.health_details.current_health = cfg.overflow_reset_percentage,
                            !.energy_details.current_energy = @ + cfg.overflow_bonus_to_other_stat],
                  delta |-> [d1 EXCEPT !.energy = @ + cfg.overflow_bonus_to_other_stat]]
            ELSE [ego |-> e1, delta |-> d1]
    ELSE st

StepEnergy(st, changes, rules) ==
    IF HasKey(changes, "energy") /\ changes.energy # 0
    THEN LET e1 == [st.ego EXCEPT !.energy_details.current_energy = @ + changes.energy]
             d1 == [st.delta EXCEPT !.energy = @ + changes.energy]
             cfg == OverflowConfig(rules)
         IN IF e1.energy_details.current_energy >= e1.energy_details.max_energy
            THEN [ego |-> [e1 EXCEPT
                            !.energy_details.current_energy = cfg.overflow_reset_percentage,
                            !.health_details.current_health = @ + cfg.overflow_bonus_to_other_stat],
                  delta |-> [d1 EXCEPT !.health = @ + cfg.overflow_bonus_to_other_stat]]
            ELSE [ego |-> e1, delta |-> d1]
    ELSE st

\* delta_applied['abilities'] holds the known abilities with a nonzero change
AppliedAbilities(ego, changes) ==
    IF HasKey(changes, "abilities")
    THEN {a \in DOMAIN changes.abilities :
            changes.abilities[a] # 0 /\ a \in DOMAIN ego.abilities}
    ELSE {}

\* Variant: an ability the character lacks is created from 0
StepAbilities_AddUnknown(st, changes) ==
    LET named == IF HasKey(changes, "abilities")
                 THEN {a \in DOMAIN changes.abilities : changes.abilities[a] # 0}
                 ELSE {}
    IN [ego |-> [st.ego EXCEPT !.abilities =
                    [a \in DOMAIN st.ego.abilities \cup named |->
                        (IF a \in DOMAIN st.ego.abilities THEN st.ego.abilities[a] ELSE 0)
                        + (IF a \in named THEN changes.abilities[a] ELSE 0)]],
        delta |-> [st.delta EXCEPT !.abilities =
                    [a \in named |-> changes.abilities[a]]]]

StepAbilities(st, changes) ==
    LET applied == AppliedAbilities(st.ego, changes)
    IN [ego |-> [st.ego EXCEPT !.abilities =
                    [a \in DOMAIN st.ego.abilities |->
                        IF a \in applied
                        THEN st.ego.abilities[a] + changes.abilities[a]
                        ELSE st.ego.abilities[a]]],
        delta |-> [st.delta EXCEPT !.abilities =
                    [a \in applied |-> changes.abilities[a]]]]

EmptyDelta == [xp |-> 0, health |-> 0, energy |-> 0, abilities |-> <<>>]

apply_stat_changes(ego_data, changes, xp_rules) ==
    LET s0 == [ego |-> ego_data, delta |-> EmptyDelta]
        s1 == StepXp(s0, changes, xp_rules)
        s2 == StepHealth(s1, changes, xp_rules)
        s3 == StepEnergy(s2, changes, xp_rules)
    IN StepAbilities(s3, changes)

-----------------------------------------------------------------------------
(* Stored documents *)

InitialAbilities(a) ==
    CASE a = "focus" -> 3
      [] a = "strength" -> 150
      [] a = "wisdom" -> 60
      [] OTHER -> 0

MakeEgo(archetype, xp, health, max_health, energy, max_energy) ==
    [name |-> ALTER_EGOS[archetype].name,
     level |-> 1,
     title |-> XpRules.levels["1"].title,
     xp_details |-> [current_xp |-> xp,
                     xp_to_next_level |-> XpRules.levels["1"].xp_to_next_level],
     health_details |-> [current_health |-> health, max_health |-> max_health],
     energy_details |-> [current_energy |-> energy, max_energy |-> max_energy],
     abilities |-> [a \in ALTER_EGOS[archetype].abilities |-> InitialAbilities(a)]]

\* The fields a History Entry snapshots
Snapshot(ego) ==
    [level |-> ego.level, title |-> ego.title,
     xp |-> ego.xp_details.current_xp,
     health |-> ego.health_details.current_health,
     energy |-> ego.energy_details.current_energy,
     abilities |-> ego.abilities]

-----------------------------------------------------------------------------
(* apply_stat_changes called directly on one character *)

NoAbilities == [a \in {} |-> 0]

StatGain == {10, 60}
StatAbilities ==
    { [a \in {"strength"} |-> 2],
      [a \in {"strength", "discipline"} |-> IF a = "strength" THEN -5 ELSE 0],
      [a \in {"focus", "honor"} |-> 1] }

\* bundles that change one part, both bounded stats, or everything
StatChanges ==
    { [xp |-> x, health |-> 0, energy |-> 0, abilities |-> NoAbilities] : x \in {30, 120, 400, -40} }
    \cup { [health |-> h, energy |-> 0, abilities |-> NoAbilities] :
                h \in StatGain \cup {-60} }
    \cup { [health |-> 0, energy |-> e, abilities |-> NoAbilities] :
                e \in StatGain \cup {-60} }
    \cup { [health |-> h, energy |-> e, abilities |-> NoAbilities] :
                h \in StatGain, e \in StatGain }
    \cup { [health |-> 0, energy |-> 0, abilities |-> ab] : ab \in StatAbilities }
    \cup { [xp |-> 120, health |-> 10, energy |-> 10,
            abilities |-> [a \in {"strength"} |-> 2]] }
    \* both bounded stats requested, the energy delta short of the maximum
    \cup { [health |-> 10, energy |-> 45, abilities |-> NoAbilities] }
    \* "focus" is not an ability of tyler
    \cup { [xp |-> 30, health |-> 60, energy |-> 10,
            abilities |-> [a \in {"discipline", "focus", "honor"} |->
                              IF a = "honor" THEN -1 ELSE 3]] }

StatEgos ==
    { MakeEgo("tyler", 0, h, 100, e, 100) : h \in {50, 95}, e \in {50, 95} }
    \* a character whose maxima are not 100
    \cup { MakeEgo("tyler", 0, 190, 200, 150, 200) }

NoCall == [called |-> FALSE]

LoopIdle == [pc |-> "idle"]

ProcsIdle == [pc |-> "none"]

StatInit ==
    /\ sEgo \in StatEgos
    /\ sLast = NoCall
    /\ sCalls = 0
    /\ sNegXp = FALSE
    /\ lvl = LoopIdle
    /\ procs = ProcsIdle

StatCall ==
    \E changes \in StatChanges :
        /\ sCalls < MaxCalls
        /\ LET r == apply_stat_changes(sEgo, changes, XpRules)
           IN /\ sEgo' = r.ego
              /\ sLast' = [called |-> TRUE, before |-> sEgo, changes |-> changes,
                           delta |-> r.delta]
        /\ sCalls' = sCalls + 1
        /\ sNegXp' = (sNegXp \/ (HasKey(changes, "xp") /\ changes.xp < 0))
        /\ UNCHANGED <<lvl, procs>>
        /\ UNCHANGED engineVars

-----------------------------------------------------------------------------
(* History ledger *)

RECURSIVE MaxIndex(_)
MaxIndex(h) ==
    IF h = <<>> THEN 0
    ELSE LET e == h[Len(h)]
             i == IF "history_index" \in DOMAIN e THEN e.history_index ELSE 0
         IN Max(i, MaxIndex(SubSeq(h, 1, Len(h) - 1)))

\* Variant: the maximum index is reused
get_next_history_index_NoIncrement(h) ==
    IF h = <<>> THEN 1 ELSE MaxIndex(h)

get_next_history_index(h) ==
    IF h = <<>> THEN 1 ELSE MaxIndex(h) + 1

\* Variant: the newest entry is stored first
record_history_Prepend(h, event_data) == <<event_data>> \o h

record_history(h, event_data) == Append(h, event_data)

-----------------------------------------------------------------------------
(* Synergy aggregator *)

calculate_synergy_xp(es) ==
    SumOver([a \in Archetypes |->
                IF Loaded(es[a]) THEN es[a].xp_details.current_xp ELSE 0],
            Archetypes)

\* round(num / den, 2) in hundredths: Python rounds an exact tie to the even digit
Round2(num, den) ==
    LET q == (num * 100) \div den
        r == (num * 100) % den
    IN IF 2 * r < den THEN q
       ELSE IF 2 * r > den THEN q + 1
       ELSE IF q % 2 = 0 THEN q ELSE q + 1

SynergyTypes == {SYNERGY_MAPPING[a] : a \in Archetypes}

calculate_synergy_stats(es) ==
    [t \in SynergyTypes |->
        LET a == CHOOSE x \in Archetypes : SYNERGY_MAPPING[x] = t
            abilities == IF Loaded(es[a]) THEN es[a].abilities ELSE NoAbilities
        IN IF DOMAIN abilities = {} THEN 0
           ELSE Round2(SumOver(abilities, DOMAIN abilities), Cardinality(DOMAIN abilities))]

CountKeys == {"total", "completed", "failed", "not-started", "in-progress"}

\* mission_data.get("status", default)
StatusOr(mission, default) ==
    IF "status" \in DOMAIN mission THEN mission.status ELSE default

\* folder.glob("*.json"): a store maps each file to its document, a file is
\* [folder, code, name] for <folder>/<code>-<name>.json
InFolder(store, folder) == {f \in DOMAIN store : f.folder = folder}

count_missions(ms) ==
    LET nc == InFolder(ms, "not-completed")
        co == InFolder(ms, "completed")
        \* increments made by the not-completed loop to counts[k]
        ncHits(k) == Cardinality({f \in nc : StatusOr(ms[f], "not-started") = k})
        coHits(k) == Cardinality({f \in co : StatusOr(ms[f], "completed") = k})
    IN [k \in CountKeys |->
          CASE k = "total" -> Cardinality(nc) + ncHits("total") + Cardinality(co)
            [] k = "completed" -> ncHits("completed") + coHits("completed")
            [] k = "failed" -> ncHits("failed") + coHits("failed")
            [] OTHER -> ncHits(k)]

count_rewards(rs) ==
    LET locked == Cardinality(InFolder(rs, "locked"))
        unlocked == Cardinality(InFolder(rs, "unlocked"))
    IN [total |-> locked + unlocked, unlocked |-> unlocked, locked |-> locked]

\* acc is [syn, total_xp, current_level]
RECURSIVE SynergyLevelLoop(_, _, _)
SynergyLevelLoop(acc, xp_to_next, rules) ==
    IF xp_to_next # NoThreshold /\ acc.total_xp >= xp_to_next
    THEN LET total_xp == acc.total_xp - xp_to_next
             current_level == acc.current_level + 1
             known == ToString(current_level) \in DOMAIN rules.levels
             new_level_data == LevelEntry(rules, current_level)
             syn2 == [acc.syn EXCEPT
                        !.level = current_level,
                        !.chapter = IF known THEN new_level_data.chapter ELSE "UNKNOWN",
                        !.description = IF known THEN new_level_data.description ELSE "",
                        !.xp_details.xp_to_next_level = new_level_data.xp_to_next_level,
                        !.xp_details.current_xp = total_xp]
         IN SynergyLevelLoop([syn |-> syn2, total_xp |-> total_xp,
                              current_level |-> current_level],
                             new_level_data.xp_to_next_level, rules)
    ELSE acc

\* Variant: the record is rebuilt from the template, daily progress included
update_synergy_FromTemplate(syn, es, ms, rs) ==
    LET total_xp == calculate_synergy_xp(es)
        syn1 == [syn EXCEPT !.xp_details.current_xp = total_xp]
        syn2 == SynergyLevelLoop(
                    [syn |-> syn1, total_xp |-> total_xp, current_level |-> syn1.level],
                    LevelEntry(SynergyRules, syn1.level).xp_to_next_level,
                    SynergyRules).syn
        synergy_stats == calculate_synergy_stats(es)
    IN [syn2 EXCEPT
          !.synergy = synergy_stats,
          !.total_synergy = SumOver(synergy_stats, SynergyTypes),
          !.missions = count_missions(ms),
          !.rewards = count_rewards(rs),
          !.daily_progress.habits =
              [h \in DOMAIN @ |-> [streak |-> 0, best_streak |-> 0,
                                   total_success |-> 0, total_failures |-> 0]]]

update_synergy(syn, es, ms, rs) ==
    LET total_xp == calculate_synergy_xp(es)
        syn1 == [syn EXCEPT !.xp_details.current_xp = total_xp]
        syn2 == SynergyLevelLoop(
                    [syn |-> syn1, total_xp |-> total_xp, current_level |-> syn1.level],
                    LevelEntry(SynergyRules, syn1.level).xp_to_next_level,
                    SynergyRules).syn
        synergy_stats == calculate_synergy_stats(es)
    IN [syn2 EXCEPT
          !.synergy = synergy_stats,
          !.total_synergy = SumOver(synergy_stats, SynergyTypes),
          !.missions = count_missions(ms),
          !.rewards = count_rewards(rs)]

-----------------------------------------------------------------------------
(* Missed-check-in penalty *)

NoCheckinDays == 999

\* load_json() of a file that is missing or does not parse
NoData == [k \in {} |-> ""]

\* get_latest_daily_progress / calculate_days_since_last_checkin: files maps
\* the date in each file name to the "alter-ego-stats" of the file, NoData
\* for a file that does not parse; a latest file that does not load counts
\* as no check-in at all
calculate_days_since_last_checkin(files, now) ==
    IF DOMAIN files = {} THEN NoCheckinDays
    ELSE LET latest_date == CHOOSE d \in DOMAIN files : \A e \in DOMAIN files : e <= d
         IN IF DOMAIN files[latest_date] = {} THEN NoCheckinDays
            ELSE now - latest_date

\* load_daily_progress_rules: the document, or None when the file cannot be
\* read; None and {} are both falsy in `if not rules:`
load_daily_progress_rules(file_readable) ==
    IF file_readable THEN DailyProgressRules ELSE NoRules

\* int(current_value * abs(abilities_percent) / 100): truncation toward zero
TruncDiv(n, d) == IF n >= 0 THEN n \div d ELSE -((-n) \div d)

\* Variant: purely proportional loss, no minimum of 1
AbilityReduction_NoMinimum(current_value, abilities_percent) ==
    TruncDiv(current_value * Abs(abilities_percent), 100)

AbilityReduction(current_value, abilities_percent) ==
    Max(1, TruncDiv(current_value * Abs(abilities_percent), 100))

\* Variant: the penalties are added without the floor at 0
PenalizeEgo_NoFloor(ego, penalties) ==
    [ego EXCEPT
        !.xp_details.current_xp = @ + penalties.xp,
        !.health_details.current_health = @ + penalties.health,
        !.energy_details.current_energy = @ + penalties.energy,
        !.abilities = [a \in DOMAIN ego.abilities |->
            ego.abilities[a]
            - AbilityReduction(ego.abilities[a], penalties.abilities_percent)]]

PenalizeEgo(ego, penalties) ==
    [ego EXCEPT
        !.xp_details.current_xp = Max(0, @ + penalties.xp),
        !.health_details.current_health = Max(0, @ + penalties.health),
        !.energy_details.current_energy = Max(0, @ + penalties.energy),
        !.abilities = [a \in DOMAIN ego.abilities |->
            Max(0, ego.abilities[a]
                   - AbilityReduction(ego.abilities[a], penalties.abilities_percent))]]

PenaltyEntry(h, archetype, before, after, penalties, days_missed, now) ==
    [history_index |-> get_next_history_index(h),
     alter_ego |-> archetype,
     event_type |-> "missed_checkin_penalty",
     days_missed |-> days_missed,
     delta_changed |->
        [xp |-> penalties.xp, health |-> penalties.health, energy |-> penalties.energy,
         abilities |-> [a \in DOMAIN before.abilities |->
            -AbilityReduction(before.abilities[a], penalties.abilities_percent)]],
     state_after_delta_applied |-> Snapshot(after),
     date |-> now]

\* Variant: the pass stops at the first character whose record is missing
RECURSIVE PenaltyLoop_StopAtMissing(_, _, _, _, _)
PenaltyLoop_StopAtMissing(st, i, penalties, days_missed, now) ==
    IF i > Len(ArchetypeOrder) THEN st
    ELSE LET archetype == ArchetypeOrder[i]
             before == st.egos[archetype]
             after == PenalizeEgo(before, penalties)
             entry == PenaltyEntry(st.history, archetype, before, after,
                                   penalties, days_missed, now)
         IN IF ~Loaded(before)
            THEN st
            ELSE PenaltyLoop_StopAtMissing(
                     [st EXCEPT !.egos[archetype] = after,
                                !.history = record_history(@, entry)],
                     i + 1, penalties, days_missed, now)

\* st is [egos, history, synergy]; the loop over ["tyler", "mr-robot", "kei"]
\* `if not ego_data: continue`
RECURSIVE PenaltyLoop(_, _, _, _, _)
PenaltyLoop(st, i, penalties, days_missed, now) ==
    IF i > Len(ArchetypeOrder) THEN st
    ELSE LET archetype == ArchetypeOrder[i]
             before == st.egos[archetype]
             after == PenalizeEgo(before, penalties)
             entry == PenaltyEntry(st.history, archetype, before, after,
                                   penalties, days_missed, now)
         IN IF ~Loaded(before)
            THEN PenaltyLoop(st, i + 1, penalties, days_missed, now)
            ELSE PenaltyLoop([st EXCEPT !.egos[archetype] = after,
                                        !.history = record_history(@, entry)],
                             i + 1, penalties, days_missed, now)

\* returns [applied, st]; `if not rules: return False` comes before the
\* threshold test
apply_missed_checkin_penalty(st, files, ms, rs, now, rules) ==
    LET days_missed == calculate_days_since_last_checkin(files, now)
    IN IF DOMAIN rules = {} THEN [applied |-> FALSE, st |-> st]
       ELSE IF days_missed < rules.missed_checkin_penalty.threshold_days
       THEN [applied |-> FALSE, st |-> st]
       ELSE LET st1 == PenaltyLoop(st, 1, rules.missed_checkin_penalty.penalties,
                                   days_missed, now)
            IN [applied |-> TRUE,
                st |-> [st1 EXCEPT !.synergy = update_synergy(@, st1.egos, ms, rs)]]

-----------------------------------------------------------------------------
(* Habit/streak engine *)

\* Variant: a success is counted twice in the streak
update_habit_streak_in_synergy_Twice(syn, habit_name, success) ==
    IF habit_name \notin DOMAIN syn.daily_progress.habits THEN syn
    ELSE LET habit_data == syn.daily_progress.habits[habit_name]
             new_data ==
                IF success
                THEN [habit_data EXCEPT
                        !.streak = @ + 2,
                        !.total_success = @ + 1,
                        !.best_streak = IF habit_data.streak + 2 > @
                                        THEN habit_data.streak + 2 ELSE @]
                ELSE [habit_data EXCEPT !.streak = 0, !.total_failures = @ + 1]
         IN [syn EXCEPT !.daily_progress.habits[habit_name] = new_data]

update_habit_streak_in_synergy(syn, habit_name, success) ==
    IF habit_name \notin DOMAIN syn.daily_progress.habits THEN syn
    ELSE LET habit_data == syn.daily_progress.habits[habit_name]
             new_data ==
                IF success
                THEN [habit_data EXCEPT
                        !.streak = @ + 1,
                        !.total_success = @ + 1,
                        !.best_streak = IF habit_data.streak + 1 > @
                                        THEN habit_data.streak + 1 ELSE @]
                ELSE [habit_data EXCEPT !.streak = 0, !.total_failures = @ + 1]
         IN [syn EXCEPT !.daily_progress.habits[habit_name] = new_data]

\* `if str(current_streak) in milestones`
MilestoneHit(milestones, current_streak) ==
    ToString(current_streak) \in DOMAIN milestones

\* habit_results.items() follows the insertion order of add_daily_progress
ResultOrder(habit_results) ==
    SelectSeq(HabitOrder, LAMBDA h : h \in DOMAIN habit_results)

\* acc is [syn, total_xp_earned, milestone_bonuses, raised]
RECURSIVE HabitLoop(_, _, _, _, _)
HabitLoop(acc, order, i, habit_results, rules) ==
    IF i > Len(order) \/ acc.raised THEN acc
    ELSE LET habit_name == order[i]
             success == (habit_results[habit_name] = "success")
             syn1 == update_habit_streak_in_synergy(acc.syn, habit_name, success)
             habit_rewards == rules.habit_success_reward.habits
             milestones == rules.streak_milestone_bonus.milestones
             xp_reward == IF habit_name \in DOMAIN habit_rewards
                          THEN habit_rewards[habit_name].xp_per_success ELSE 0
             tracked == habit_name \in DOMAIN syn1.daily_progress.habits
             current_streak == syn1.daily_progress.habits[habit_name].streak
             hit == MilestoneHit(milestones, current_streak)
             milestone_bonus == milestones[ToString(current_streak)].xp_bonus
             acc1 ==
                IF ~success THEN [acc EXCEPT !.syn = syn1]
                ELSE IF ~tracked
                THEN \* KeyError on habits[habit_name]: the pass stops here
                     [acc EXCEPT !.syn = syn1, !.total_xp_earned = @ + xp_reward,
                                 !.raised = TRUE]
                ELSE IF hit
                THEN [acc EXCEPT
                        !.syn = syn1,
                        !.total_xp_earned = @ + xp_reward + milestone_bonus,
                        !.milestone_bonuses =
                            Append(@, <<habit_name, current_streak, milestone_bonus>>)]
                ELSE [acc EXCEPT !.syn = syn1, !.total_xp_earned = @ + xp_reward]
         IN HabitLoop(acc1, order, i + 1, habit_results, rules)

MilestoneEntry(h, archetype, ego, bonus, now) ==
    [history_index |-> get_next_history_index(h),
     alter_ego |-> archetype,
     event_type |-> "streak_milestone",
     habit_name |-> bonus[1],
     streak_days |-> bonus[2],
     delta_changed |-> [xp |-> bonus[3]],
     state_after_delta_applied |-> Snapshot(ego),
     date |-> now]

\* one entry per milestone per alter-ego, milestones outermost
RECURSIVE MilestoneHistory(_, _, _, _, _)
MilestoneHistory(h, es, bonuses, k, now) ==
    IF k > Len(bonuses) * Len(ArchetypeOrder) THEN h
    ELSE LET b == ((k - 1) \div Len(ArchetypeOrder)) + 1
             archetype == ArchetypeOrder[((k - 1) % Len(ArchetypeOrder)) + 1]
             entry == MilestoneEntry(h, archetype, es[archetype], bonuses[b], now)
         IN IF ~Loaded(es[archetype])
            THEN MilestoneHistory(h, es, bonuses, k + 1, now)
            ELSE MilestoneHistory(record_history(h, entry), es, bonuses, k + 1, now)

\* the level-up loop repeated in apply_habit_rewards
RECURSIVE HabitLevelUpLoop(_, _, _)
HabitLevelUpLoop(ego, xp_to_next, rules) ==
    IF xp_to_next # NoThreshold /\ ego.xp_details.current_xp >= xp_to_next
    THEN LET new_level_data == LevelEntry(rules, ego.level + 1)
             ego2 == [ego EXCEPT
                        !.xp_details.current_xp = @ - xp_to_next,
                        !.level = @ + 1,
                        !.title = IF "title" \in DOMAIN new_level_data
                                  THEN new_level_data.title ELSE @,
                        !.xp_details.xp_to_next_level = new_level_data.xp_to_next_level]
         IN HabitLevelUpLoop(ego2, ego2.xp_details.xp_to_next_level, rules)
    ELSE ego

\* Variant: the total is split between the alter-egos
ApplyHabitXp_Split(ego, total_xp_earned, xp_rules) ==
    LET ego1 == [ego EXCEPT
                    !.xp_details.current_xp = @ + (total_xp_earned \div Len(ArchetypeOrder))]
    IN IF ~Loaded(ego) THEN ego
       ELSE IF DOMAIN xp_rules = {} THEN ego1
       ELSE HabitLevelUpLoop(ego1, LevelEntry(xp_rules, ego1.level).xp_to_next_level,
                             xp_rules)

\* every alter-ego whose record loads receives the whole total_xp_earned;
\* `if xp_rules:` without the rules the XP is added and no level is gained
ApplyHabitXp(ego, total_xp_earned, xp_rules) ==
    LET ego1 == [ego EXCEPT !.xp_details.current_xp = @ + total_xp_earned]
    IN IF ~Loaded(ego) THEN ego
       ELSE IF DOMAIN xp_rules = {} THEN ego1
       ELSE HabitLevelUpLoop(ego1, LevelEntry(xp_rules, ego1.level).xp_to_next_level,
                             xp_rules)

\* nothing was processed
NotProcessed(st) ==
    [st |-> st, total_xp_earned |-> 0, milestone_bonuses |-> <<>>, raised |-> FALSE]

\* returns [st, total_xp_earned, milestone_bonuses, raised];
\* `if not rules: return False` comes before the streak updates
apply_habit_rewards(st, habit_results, ms, rs, now, rules, xp_rules) ==
    LET acc == HabitLoop([syn |-> st.synergy, total_xp_earned |-> 0,
                          milestone_bonuses |-> <<>>, raised |-> FALSE],
                         ResultOrder(habit_results), 1, habit_results, rules)
        es1 == [a \in Archetypes |->
                    ApplyHabitXp(st.egos[a], acc.total_xp_earned, xp_rules)]
        h1 == MilestoneHistory(st.history, es1, acc.milestone_bonuses, 1, now)
        st1 == IF acc.raised \/ acc.total_xp_earned <= 0
               THEN [st EXCEPT !.synergy = acc.syn]
               ELSE [egos |-> es1, history |-> h1,
                     synergy |-> update_synergy(acc.syn, es1, ms, rs)]
    IN IF DOMAIN rules = {} THEN NotProcessed(st)
       ELSE [st |-> st1, total_xp_earned |-> acc.total_xp_earned,
             milestone_bonuses |-> acc.milestone_bonuses, raised |-> acc.raised]

\* returns the same record as apply_habit_rewards; the result of
\* apply_habit_rewards is not looked at, the two check-in counters are
\* incremented whenever the file holds habit results
process_daily_progress_file(st, habit_results, ms, rs, now, rules, xp_rules) ==
    IF DOMAIN habit_results = {} THEN NotProcessed(st)
    ELSE LET r == apply_habit_rewards(st, habit_results, ms, rs, now, rules, xp_rules)
         IN IF r.raised THEN r
            ELSE [r EXCEPT
                    !.st.synergy.daily_progress.daily_progress_streak = @ + 1,
                    !.st.synergy.daily_progress.days_checked_in = @ + 1]

-----------------------------------------------------------------------------
(* Typed answers, identifiers and files *)

\* the answer Enter at a prompt
Enter == ""

\* get_input(prompt, default): the stripped answer, the default on Enter
get_input(value, default) == IF value # "" THEN value ELSE default

\* str(n) of the numbers that are typed
Decimal == [n \in -99..99 |-> ToString(n)]

\* int(text) of a typed decimal number
ParseInt(text) == CHOOSE n \in DOMAIN Decimal : Decimal[n] = text

\* f"{n:02d}"
Pad2(n) == IF n < 10 THEN "0" \o ToString(n) ELSE ToString(n)

\* the file stems that start with a prefix (the first letter of a mission or
\* reward file name), by the number behind it in any of its spellings
Stems ==
    [prefix \in {ALTER_EGOS[a].prefix : a \in Archetypes} \cup {"R"} |->
        [n \in 0..99 |->
            {prefix \o d : d \in {ToString(n), "0" \o ToString(n), "00" \o ToString(n)}}]]

\* folder.glob(f"{prefix}*.json")
HasPrefix(code, prefix) == \E n \in 0..99 : code \in Stems[prefix][n]

\* int(file.stem.split('-')[0][1:])
CodeNumber(code, prefix) == CHOOSE n \in 0..99 : code \in Stems[prefix][n]

\* max(existing_numbers, default=0)
MaxOr0(S) == IF S = {} THEN 0 ELSE CHOOSE x \in S : \A y \in S : y <= x

get_next_mission_id(alter_ego, ms) ==
    LET prefix == ALTER_EGOS[alter_ego].prefix
        existing_numbers ==
            {CodeNumber(f.code, prefix) : f \in {x \in DOMAIN ms : HasPrefix(x.code, prefix)}}
    IN prefix \o Pad2(MaxOr0(existing_numbers) + 1)

get_next_reward_id(rs) ==
    LET existing_numbers ==
            {CodeNumber(f.code, "R") : f \in {x \in DOMAIN rs : HasPrefix(x.code, "R")}}
    IN "R" \o Pad2(MaxOr0(existing_numbers) + 1)

\* title.lower().replace(' ', '-') on the titles in use
title_to_filename(title) ==
    CASE title = "Fight Club" -> "fight-club"
      [] title = "Project Mayhem" -> "project-mayhem"
      [] title = "Soap" -> "soap"
      [] title = "Lye" -> "lye"
      [] OTHER -> title

\* folder / f"{code}-{title_to_filename(title)}.json"
FilePath(folder, code, title) ==
    [folder |-> folder, code |-> code, name |-> title_to_filename(title)]

\* file.stem
Stem(file) == file.code \o "-" \o file.name

\* folder.glob(f"{code}-*.json")
Glob(store, folder, code) == {f \in InFolder(store, folder) : f.code = code}

\* list.remove(x): the first occurrence
RECURSIVE RemoveFirst(_, _)
RemoveFirst(s, x) ==
    IF s = <<>> THEN s
    ELSE IF Head(s) = x THEN Tail(s)
    ELSE <<Head(s)>> \o RemoveFirst(Tail(s), x)

\* list.pop(i - 1)
RemoveAt(s, i) == SubSeq(s, 1, i - 1) \o SubSeq(s, i + 1, Len(s))

Contains(s, x) == \E i \in 1..Len(s) : s[i] = x

\* d[key] = value on a document that may lack the key
SetKey(d, key, value) ==
    [k \in DOMAIN d \cup {key} |-> IF k = key THEN value ELSE d[k]]

\* save_json(file_path, data): the file is created or replaced; a failure
\* is caught and answered with False
save_json(store, file_path, data) ==
    [f \in DOMAIN store \cup {file_path} |-> IF f = file_path THEN data ELSE store[f]]

\* the store without one file
Unlink(store, file_path) == [f \in DOMAIN store \ {file_path} |-> store[f]]

\* list_missions(folder): every file of the folder with its document
list_missions(ms, folder) == [f \in InFolder(ms, folder) |-> ms[f]]

\* list_rewards(folder)
list_rewards(rs, folder) == [f \in InFolder(rs, folder) |-> rs[f]]

-----------------------------------------------------------------------------
(* Initial documents *)

AllAbilities(archetype, f) ==
    [a \in ALTER_EGOS[archetype].abilities |-> IF a \in DOMAIN f THEN f[a] ELSE 0]

T001Mission ==
    [archetype |-> "tyler", mission_code |-> "T001", title |-> "Fight Club",
     status |-> "not-started",
     archetype_stat_change |->
        [on_complete |->
            [health |-> 10, energy |-> 60,
             abilities |-> AllAbilities("tyler", [a \in {"strength"} |-> 2])],
         on_failure |->
            [health |-> -60, energy |-> -10,
             abilities |-> AllAbilities("tyler", [a \in {"honor"} |-> -5])]],
     reward |-> <<"R001">>,
     progress |-> [current |-> 0, total |-> 1]]

M001Mission ==
    [archetype |-> "mr-robot", mission_code |-> "M001", title |-> "Fight Club",
     status |-> "in-progress",
     archetype_stat_change |->
        [on_complete |->
            [xp |-> 120, health |-> 60, energy |-> 10,
             abilities |-> [a \in {"logic", "strength"} |-> 1]],
         on_failure |->
            [xp |-> -40, health |-> 0, energy |-> -60,
             abilities |-> [a \in {"focus"} |-> -5]]],
     reward |-> <<>>,
     progress |-> [current |-> 1, total |-> 3]]

InitMissions ==
    (FilePath("not-completed", "T001", "Fight Club") :> T001Mission)
    @@ (FilePath("not-completed", "M001", "Fight Club") :> M001Mission)

InitRewards ==
    (FilePath("locked", "R001", "Soap")
        :> [reward_id |-> "R001", title |-> "Soap", associated_mission_ids |-> <<"T001">>])
    @@ (FilePath("locked", "R002", "Lye")
        :> [reward_id |-> "R002", title |-> "Lye", associated_mission_ids |-> <<>>])

InitEgos ==
    [a \in Archetypes |->
        CASE a = "tyler" -> MakeEgo(a, 50, 95, 100, 50, 100)
          [] a = "mr-robot" -> MakeEgo(a, 0, 50, 100, 95, 100)
          [] a = "kei" -> MakeEgo(a, 2, 2, 100, 2, 100)]

InitHabits ==
    [h \in Habits |->
        IF h = "workout"
        THEN [streak |-> 4, best_streak |-> 4, total_success |-> 4, total_failures |-> 0]
        ELSE [streak |-> 0, best_streak |-> 0, total_success |-> 0, total_failures |-> 0]]

BlankSynergy ==
    [level |-> 1,
     chapter |-> SynergyRules.levels["1"].chapter,
     description |-> SynergyRules.levels["1"].description,
     xp_details |-> [current_xp |-> 0,
                     xp_to_next_level |-> SynergyRules.levels["1"].xp_to_next_level],
     synergy |-> [t \in SynergyTypes |-> 0],
     total_synergy |-> 0,
     missions |-> [k \in CountKeys |-> 0],
     rewards |-> [total |-> 0, unlocked |-> 0, locked |-> 0],
     daily_progress |-> [daily_progress_streak |-> 4, days_checked_in |-> 4,
                         habits |-> InitHabits]]

InitSynergy == update_synergy(BlankSynergy, InitEgos, InitMissions, InitRewards)

\* no daily-progress file on disk
NoFiles == [d \in {} |-> <<>>]

NoOp == [op |-> "none", synced |-> TRUE]

EngineInit ==
    /\ egos = InitEgos
    /\ history = <<>>
    /\ synergy = InitSynergy
    /\ missions = InitMissions
    /\ rewards = InitRewards
    /\ checkins = NoFiles
    /\ today = 0
    /\ last = NoOp
    /\ nOps = 0
    /\ waiting = EmptyBag

StatCallIdle ==
    /\ sEgo = MakeEgo("tyler", 0, 50, 100, 50, 100)
    /\ sLast = NoCall
    /\ sCalls = 0
    /\ sNegXp = FALSE

StatIdle ==
    /\ StatCallIdle
    /\ lvl = LoopIdle
    /\ procs = ProcsIdle

Init == EngineInit /\ StatIdle

InitStat == EngineInit /\ StatInit

-----------------------------------------------------------------------------
(* A handler between two prompts *)

\* A handler runs from one input() to the next in one step and keeps its
\* local variables in a frame while it waits: what it read before the prompt
\* is what it writes after it, whatever is on disk by then.

\* the handler of frame w waits again, as w2
Resume(w, w2) == (waiting (-) SetToBag({w})) (+) SetToBag({w2})

\* the handler of frame w returns
Return(w) == waiting (-) SetToBag({w})

\* a step that only reads and then waits at a prompt
Asked == [op |-> "prompt", synced |-> last.synced]

\* The stored summary is current: the handler's last write of a character,
\* mission or reward record was followed by update_synergy, or the summary
\* was current before and none of these records changed.
Synced(refreshed, es, ms, rs) ==
    refreshed \/ (last.synced /\ es = egos /\ ms = missions /\ rs = rewards)

\* the rules documents as they load during one step: each file can be
\* missing or unparsable
RulesFiles ==
    {[rules |-> load_daily_progress_rules(r), xp_rules |-> load_xp_rules(x)] :
        r \in BOOLEAN, x \in BOOLEAN}

-----------------------------------------------------------------------------
(* Rewards: create_reward and the links between missions and rewards *)

\* reward.get("associated_mission_ids", [])
Associated(reward) ==
    IF "associated_mission_ids" \in DOMAIN reward THEN reward.associated_mission_ids
    ELSE <<>>

\* the value of .get("reward_id") on a document without the key
NoId == ""

RewardId(reward) == IF "reward_id" \in DOMAIN reward THEN reward.reward_id ELSE NoId

\* mission.get("reward", [])
RewardList(mission) == IF "reward" \in DOMAIN mission THEN mission.reward ELSE <<>>

\* create_reward(mission_code) from the answer at "Reward title", with the
\* reward id it read before the prompt; mission_codes is <<>> for mission_code
\* None. Returns [rewards, synergy, reward]: reward is <<>> for the result
\* None (no title), one reward id otherwise.
create_reward(reward_id, title, mission_codes, syn, es, ms, rs) ==
    LET reward == [reward_id |-> reward_id, title |-> title,
                   associated_mission_ids |-> mission_codes]
        rs1 == save_json(rs, FilePath("locked", reward_id, title), reward)
    IN IF title = Enter
       THEN [rewards |-> rs, synergy |-> syn, reward |-> <<>>]
       ELSE [rewards |-> rs1,
             synergy |-> update_synergy(syn, es, ms, rs1),
             reward |-> <<reward_id>>]

\* "Link existing reward": the mission code is appended to the reward as it
\* was listed and that copy is saved, unless it names the mission already
LinkReward(reward_file, reward_data, mission_code, syn, rs) ==
    [rewards |-> IF mission_code # "" /\ ~Contains(Associated(reward_data), mission_code)
                 THEN save_json(rs, reward_file,
                                SetKey(reward_data, "associated_mission_ids",
                                       Append(Associated(reward_data), mission_code)))
                 ELSE rs,
     synergy |-> syn,
     reward |-> <<RewardId(reward_data)>>]

\* the answers at the prompt a reward dialogue waits at: a title, or one of
\* the listed reward files
RewardAnswers(w) ==
    CASE w.at = "reward_title" -> {Enter, "Soap", "Lye"}
      [] w.at = "select_reward" -> DOMAIN w.rewards
      [] OTHER -> {}

\* the reward dialogue of a mission from that answer on
MissionReward(w, answer, mission_code) ==
    IF w.at = "reward_title"
    THEN create_reward(w.reward_id, answer, <<mission_code>>, synergy, egos,
                       missions, rewards)
    ELSE LinkReward(answer, w.rewards[answer], mission_code, synergy, rewards)

\* "Remove a reward": the mission code leaves every file of the reward, in
\* either folder, as the file is now
RECURSIVE UnlinkMission(_, _, _)
UnlinkMission(rs, files, mission_code) ==
    IF files = {} THEN rs
    ELSE LET f == CHOOSE x \in files : TRUE
             rs1 == IF Contains(Associated(rs[f]), mission_code)
                    THEN save_json(rs, f, [rs[f] EXCEPT !.associated_mission_ids =
                                                RemoveFirst(@, mission_code)])
                    ELSE rs
         IN UnlinkMission(rs1, files \ {f}, mission_code)

-----------------------------------------------------------------------------
(* Mission outcome: mark_mission_completed / mark_mission_failed *)

MissionEntry(h, archetype, stem, state, delta, ego, unlocked, now) ==
    LET base == [history_index |-> get_next_history_index(h),
                 alter_ego |-> archetype,
                 mission_associated |-> stem,
                 state |-> state,
                 delta_changed |-> delta,
                 state_after_delta_applied |-> Snapshot(ego),
                 date |-> now]
    IN IF unlocked # <<>>
       THEN [k \in DOMAIN base \cup {"reward_unlocked"} |->
                IF k = "reward_unlocked" THEN unlocked ELSE base[k]]
       ELSE base

\* the stat part shared by both handlers: apply, save, record
\* `if ego_data and xp_rules:` an empty rules document skips the whole block
ApplyMissionOutcome(mission, stem, state, bundle, unlocked, xp_rules) ==
    LET archetype == mission.archetype
        r == apply_stat_changes(egos[archetype], bundle, xp_rules)
        entry == MissionEntry(history, archetype, stem, state, r.delta, r.ego,
                              unlocked, today)
    IN IF ~Loaded(egos[archetype]) \/ DOMAIN xp_rules = {}
       THEN [egos |-> egos, history |-> history, delta |-> EmptyDelta]
       ELSE [egos |-> [egos EXCEPT ![archetype] = r.ego],
             history |-> record_history(history, entry),
             delta |-> r.delta]

\* the loop over mission["reward"]: every file of the reward that is in
\* rewards/locked now moves to rewards/unlocked under its name, and the
\* reward id is noted once per file; acc is [rewards, unlocked_rewards]
RECURSIVE UnlockRewards(_, _, _)
UnlockRewards(acc, reward_list, i) ==
    IF i > Len(reward_list) THEN acc
    ELSE LET reward_id == reward_list[i]
             files == IF reward_id = NoId THEN {}
                      ELSE Glob(acc.rewards, "locked", reward_id)
             moved == {[f EXCEPT !.folder = "unlocked"] : f \in files}
             rs1 == [f \in (DOMAIN acc.rewards \ files) \cup moved |->
                        IF f \in moved THEN acc.rewards[[f EXCEPT !.folder = "locked"]]
                        ELSE acc.rewards[f]]
             acc1 == [rewards |-> rs1,
                      unlocked_rewards |->
                          acc.unlocked_rewards
                          \o [k \in 1..Cardinality(files) |-> reward_id]]
         IN UnlockRewards(acc1, reward_list, i + 1)

\* mark_mission_completed up to "Select mission to complete"
MarkMissionCompleted ==
    /\ InFolder(missions, "not-completed") # {}
    /\ waiting' = waiting (+) SetToBag({[handler |-> "mark_mission_completed",
                                         at |-> "choice",
                                         missions |-> list_missions(missions,
                                                                    "not-completed")]})
    /\ last' = Asked
    /\ nOps' = nOps + 1
    /\ UNCHANGED <<egos, history, synergy, missions, rewards, checkins, today>>
    /\ UNCHANGED statVars

\* mark_mission_completed from the choice on: the mission as it was listed is
\* completed; its file is unlinked after the copy in missions/completed is
\* saved, and a file that is gone by then ends the handler with
\* FileNotFoundError before update_synergy
MarkMissionCompletedChoice(w, mission_file, rules_readable) ==
    /\ w.handler = "mark_mission_completed"
    /\ mission_file \in DOMAIN w.missions
    /\ \E mission \in {[SetKey(w.missions[mission_file], "status", "completed") EXCEPT
                             !.progress.current = w.missions[mission_file].progress.total]} :
       \E u \in {UnlockRewards([rewards |-> rewards, unlocked_rewards |-> <<>>],
                               RewardList(mission), 1)} :
       \E out \in {ApplyMissionOutcome(mission, Stem(mission_file), "completed",
                       mission.archetype_stat_change.on_complete, u.unlocked_rewards,
                       load_xp_rules(rules_readable))} :
       \E gone \in {mission_file \notin DOMAIN missions} :
       \E ms1 \in {Unlink(save_json(missions, [mission_file EXCEPT !.folder = "completed"],
                                    mission),
                          mission_file)} :
          /\ egos' = out.egos
          /\ history' = out.history
          /\ missions' = ms1
          /\ rewards' = u.rewards
          /\ synergy' = IF gone THEN synergy
                        ELSE update_synergy(synergy, out.egos, ms1, u.rewards)
          /\ last' = [op |-> "mission_completed",
                      synced |-> Synced(~gone, out.egos, ms1, u.rewards),
                      mission |-> Stem(mission_file),
                      bundle |-> mission.archetype_stat_change.on_complete,
                      xp_rules |-> load_xp_rules(rules_readable),
                      archetype |-> mission.archetype,
                      egos |-> egos, history |-> history, delta |-> out.delta]
    /\ waiting' = Return(w)
    /\ UNCHANGED <<checkins, today, nOps>>
    /\ UNCHANGED statVars

\* mark_mission_failed up to "Select mission to mark as failed"
MarkMissionFailed ==
    /\ InFolder(missions, "not-completed") # {}
    /\ waiting' = waiting (+) SetToBag({[handler |-> "mark_mission_failed",
                                         at |-> "choice",
                                         missions |-> list_missions(missions,
                                                                    "not-completed")]})
    /\ last' = Asked
    /\ nOps' = nOps + 1
    /\ UNCHANGED <<egos, history, synergy, missions, rewards, checkins, today>>
    /\ UNCHANGED statVars

\* mark_mission_failed from the choice on
MarkMissionFailedChoice(w, mission_file, rules_readable) ==
    /\ w.handler = "mark_mission_failed"
    /\ mission_file \in DOMAIN w.missions
    /\ \E mission \in {SetKey(w.missions[mission_file], "status", "failed")} :
       \E out \in {ApplyMissionOutcome(mission, Stem(mission_file), "failed",
                       mission.archetype_stat_change.on_failure, <<>>,
                       load_xp_rules(rules_readable))} :
       \E gone \in {mission_file \notin DOMAIN missions} :
       \E ms1 \in {Unlink(save_json(missions, [mission_file EXCEPT !.folder = "completed"],
                                    mission),
                          mission_file)} :
          /\ egos' = out.egos
          /\ history' = out.history
          /\ missions' = ms1
          /\ synergy' = IF gone THEN synergy
                        ELSE update_synergy(synergy, out.egos, ms1, rewards)
          /\ last' = [op |-> "mission_failed",
                      synced |-> Synced(~gone, out.egos, ms1, rewards),
                      mission |-> Stem(mission_file),
                      bundle |-> mission.archetype_stat_change.on_failure,
                      xp_rules |-> load_xp_rules(rules_readable),
                      archetype |-> mission.archetype,
                      egos |-> egos, history |-> history, delta |-> out.delta]
    /\ waiting' = Return(w)
    /\ UNCHANGED <<rewards, checkins, today, nOps>>
    /\ UNCHANGED statVars

-----------------------------------------------------------------------------
(* Daily check-ins: add, modify, delete, process *)

\* the answers at the habit prompts: y/n, and any other text, which is
\* stored lower-cased
CheckinResults ==
    { [h \in Habits |-> IF h \in S THEN "success" ELSE "failed"] :
          S \in {{}, {"workout"}, {"workout", "reading"}, {"meditation"}} }
    \cup { [h \in Habits |-> CASE h = "workout" -> "skipped"
                              [] h = "reading" -> "success"
                              [] OTHER -> "failed"] }

EntryDates(now) == {now - MaxBack, now - 1, now}

PromptThreshold == 3

\* the observation of a step that may have penalized and processed
CheckinRecord(op, entry_date, data, processed, declined, days_missed, pen, res, files) ==
    [op |-> op,
     synced |-> IF pen.applied \/ res.total_xp_earned > 0
                THEN TRUE ELSE last.synced,
     entry_date |-> entry_date,
     processed |-> processed,
     \* the penalty prompt was shown and answered "no"
     declined |-> declined,
     penalized |-> pen.applied,
     days_missed |-> days_missed,
     results |-> data,
     rules |-> files.rules,
     xp_rules |-> files.xp_rules,
     egos |-> egos, history |-> history,
     habits |-> synergy.daily_progress.habits,
     penalized_egos |-> pen.st.egos,
     before_rewards |-> [history |-> pen.st.history, synergy |-> pen.st.synergy],
     total_xp_earned |-> res.total_xp_earned,
     milestone_bonuses |-> res.milestone_bonuses]

\* load_json(filepath) of a daily-progress file: {} when the file is gone
LoadCheckin(files, entry_date) ==
    IF entry_date \in DOMAIN files THEN files[entry_date] ELSE NoData

\* add_daily_progress from the answer at "Date": a date whose file exists
\* ends the handler, otherwise the mood, sleep and habit prompts follow
AddDailyProgress(entry_date) ==
    /\ entry_date \notin DOMAIN checkins
    /\ waiting' = waiting (+) SetToBag({[handler |-> "add_daily_progress",
                                         at |-> "habits",
                                         entry_date |-> entry_date]})
    /\ last' = Asked
    /\ nOps' = nOps + 1
    /\ UNCHANGED <<egos, history, synergy, missions, rewards, checkins, today>>
    /\ UNCHANGED statVars

\* add_daily_progress from the last habit answer: the entry file is saved,
\* over a file another copy has written meanwhile, then "Process this entry
\* now" is asked
AddDailyProgressSave(w, habit_results) ==
    /\ w.handler = "add_daily_progress" /\ w.at = "habits"
    /\ checkins' = save_json(checkins, w.entry_date, habit_results)
    /\ waiting' = Resume(w, [w EXCEPT !.at = "process_now"])
    /\ last' = [op |-> "checkin_saved", synced |-> last.synced,
                entry_date |-> w.entry_date]
    /\ UNCHANGED <<egos, history, synergy, missions, rewards, today, nOps>>
    /\ UNCHANGED statVars

\* add_daily_progress from the answer at "Process this entry now": the days
\* since the latest file are read now; at the threshold the handler waits
\* again at "Apply missed check-in penalty", otherwise the file is processed
\* as it is on disk now
AddDailyProgressProcess(w, process_now, files) ==
    /\ w.handler = "add_daily_progress" /\ w.at = "process_now"
    /\ \E st0 \in {[egos |-> egos, history |-> history, synergy |-> synergy]} :
       \E days_missed \in {calculate_days_since_last_checkin(checkins, today)} :
       \E data \in {LoadCheckin(checkins, w.entry_date)} :
          IF process_now /\ days_missed >= PromptThreshold
          THEN /\ waiting' = Resume(w, [w EXCEPT !.at = "apply_penalty"])
               /\ last' = Asked
               /\ UNCHANGED <<egos, history, synergy>>
          ELSE \E res \in {IF process_now
                           THEN process_daily_progress_file(st0, data, missions,
                                    rewards, today, files.rules, files.xp_rules)
                           ELSE NotProcessed(st0)} :
               /\ waiting' = Return(w)
               /\ egos' = res.st.egos
               /\ history' = res.st.history
               /\ synergy' = res.st.synergy
               /\ last' = CheckinRecord("checkin", w.entry_date, data,
                                        process_now /\ DOMAIN data # {}, FALSE,
                                        days_missed, [applied |-> FALSE, st |-> st0],
                                        res, files)
    /\ UNCHANGED <<missions, rewards, checkins, today, nOps>>
    /\ UNCHANGED statVars

\* add_daily_progress from the answer at "Apply missed check-in penalty":
\* the penalty measures the days itself, then the file is processed as it is
\* on disk now
AddDailyProgressPenalty(w, apply_penalty, files) ==
    /\ w.handler = "add_daily_progress" /\ w.at = "apply_penalty"
    /\ \E st0 \in {[egos |-> egos, history |-> history, synergy |-> synergy]} :
       \E pen \in {IF apply_penalty
                   THEN apply_missed_checkin_penalty(st0, checkins, missions,
                                                     rewards, today, files.rules)
                   ELSE [applied |-> FALSE, st |-> st0]} :
       \E data \in {LoadCheckin(checkins, w.entry_date)} :
       \E res \in {process_daily_progress_file(pen.st, data, missions, rewards,
                                               today, files.rules, files.xp_rules)} :
          /\ waiting' = Return(w)
          /\ egos' = res.st.egos
          /\ history' = res.st.history
          /\ synergy' = res.st.synergy
          /\ last' = CheckinRecord("checkin", w.entry_date, data, DOMAIN data # {},
                                   ~apply_penalty,
                                   calculate_days_since_last_checkin(checkins, today),
                                   pen, res, files)
    /\ UNCHANGED <<missions, rewards, checkins, today, nOps>>
    /\ UNCHANGED statVars

RecentEntries == 10

\* files[-10:]
Recent(files) ==
    {d \in DOMAIN files : Cardinality({e \in DOMAIN files : e > d}) < RecentEntries}

\* answers tried at the habit prompts: a habit that is a key was answered
HabitEdits ==
    { [h \in {} |-> ""],
      [h \in {"workout"} |-> "success"],
      [h \in {"workout", "reading"} |-> IF h = "workout" THEN "failed" ELSE "success"] }

\* modify_daily_progress up to "Select entry to modify": the recent files
\* are listed
ModifyDailyProgress ==
    /\ DOMAIN checkins # {}
    /\ waiting' = waiting (+) SetToBag({[handler |-> "modify_daily_progress",
                                         at |-> "choice",
                                         recent_files |-> Recent(checkins)]})
    /\ last' = Asked
    /\ nOps' = nOps + 1
    /\ UNCHANGED <<egos, history, synergy, missions, rewards, checkins, today>>
    /\ UNCHANGED statVars

\* modify_daily_progress from the choice on: the file is loaded as it is now
\* (`if not data: return`), then the mood, sleep and habit prompts follow
ModifyDailyProgressLoad(w, entry_date) ==
    /\ w.handler = "modify_daily_progress" /\ w.at = "choice"
    /\ entry_date \in w.recent_files
    /\ \E data \in {LoadCheckin(checkins, entry_date)} :
          waiting' = IF DOMAIN data = {} THEN Return(w)
                     ELSE Resume(w, [handler |-> "modify_daily_progress",
                                     at |-> "habits", entry_date |-> entry_date,
                                     data |-> data])
    /\ last' = Asked
    /\ UNCHANGED <<egos, history, synergy, missions, rewards, checkins, today, nOps>>
    /\ UNCHANGED statVars

\* modify_daily_progress from the last habit answer: the answers replace the
\* loaded ones and the loaded document is saved, then "Reprocess" is asked
ModifyDailyProgressSave(w, edits) ==
    /\ w.handler = "modify_daily_progress" /\ w.at = "habits"
    /\ \E habits \in {[h \in DOMAIN w.data |->
                           IF h \in DOMAIN edits THEN edits[h] ELSE w.data[h]]} :
          checkins' = save_json(checkins, w.entry_date, habits)
    /\ waiting' = Resume(w, [handler |-> "modify_daily_progress",
                             at |-> "reprocess", entry_date |-> w.entry_date])
    /\ last' = [op |-> "checkin_modified", synced |-> last.synced,
                entry_date |-> w.entry_date]
    /\ UNCHANGED <<egos, history, synergy, missions, rewards, today, nOps>>
    /\ UNCHANGED statVars

\* modify_daily_progress from the answer at "Reprocess": on yes the file is
\* processed as it is on disk now, as a new entry would be
ModifyDailyProgressReprocess(w, reprocess, files) ==
    /\ w.handler = "modify_daily_progress" /\ w.at = "reprocess"
    /\ \E st0 \in {[egos |-> egos, history |-> history, synergy |-> synergy]} :
       \E data \in {LoadCheckin(checkins, w.entry_date)} :
       \E res \in {IF reprocess
                   THEN process_daily_progress_file(st0, data, missions, rewards,
                                                    today, files.rules, files.xp_rules)
                   ELSE NotProcessed(st0)} :
          /\ waiting' = Return(w)
          /\ egos' = res.st.egos
          /\ history' = res.st.history
          /\ synergy' = res.st.synergy
          /\ last' = CheckinRecord("modify_checkin", w.entry_date, data,
                                   reprocess /\ DOMAIN data # {}, FALSE,
                                   calculate_days_since_last_checkin(checkins, today),
                                   [applied |-> FALSE, st |-> st0], res, files)
    /\ UNCHANGED <<missions, rewards, checkins, today, nOps>>
    /\ UNCHANGED statVars

\* delete_daily_progress up to "Select entry to delete"
DeleteDailyProgress ==
    /\ DOMAIN checkins # {}
    /\ waiting' = waiting (+) SetToBag({[handler |-> "delete_daily_progress",
                                         at |-> "choice",
                                         recent_files |-> Recent(checkins)]})
    /\ last' = Asked
    /\ nOps' = nOps + 1
    /\ UNCHANGED <<egos, history, synergy, missions, rewards, checkins, today>>
    /\ UNCHANGED statVars

\* delete_daily_progress from the choice and the confirmation: the file is
\* removed, nothing is reversed; unlink() of a file that is gone ends the
\* handler with FileNotFoundError, nothing follows it either way
DeleteDailyProgressConfirm(w, entry_date, confirm) ==
    /\ w.handler = "delete_daily_progress"
    /\ entry_date \in w.recent_files
    /\ checkins' = IF confirm THEN Unlink(checkins, entry_date) ELSE checkins
    /\ waiting' = Return(w)
    /\ last' = [op |-> "delete_checkin", synced |-> last.synced,
                entry_date |-> entry_date]
    /\ UNCHANGED <<egos, history, synergy, missions, rewards, today, nOps>>
    /\ UNCHANGED statVars

\* process_latest_daily_progress up to "Process this daily progress?": the
\* latest file is found and shown
ProcessLatestDailyProgress ==
    /\ DOMAIN checkins # {}
    /\ \E entry_date \in {d \in DOMAIN checkins : \A e \in DOMAIN checkins : e <= d} :
          /\ DOMAIN checkins[entry_date] # {}
          /\ waiting' = waiting (+) SetToBag({[handler |-> "process_latest_daily_progress",
                                               at |-> "confirm",
                                               entry_date |-> entry_date]})
    /\ last' = Asked
    /\ nOps' = nOps + 1
    /\ UNCHANGED <<egos, history, synergy, missions, rewards, checkins, today>>
    /\ UNCHANGED statVars

\* process_latest_daily_progress from the confirmation: the file that was
\* shown is loaded again and processed
ProcessLatestDailyProgressConfirm(w, confirm, files) ==
    /\ w.handler = "process_latest_daily_progress"
    /\ \E st0 \in {[egos |-> egos, history |-> history, synergy |-> synergy]} :
       \E data \in {LoadCheckin(checkins, w.entry_date)} :
       \E res \in {IF confirm
                   THEN process_daily_progress_file(st0, data, missions, rewards,
                                                    today, files.rules, files.xp_rules)
                   ELSE NotProcessed(st0)} :
          /\ waiting' = Return(w)
          /\ egos' = res.st.egos
          /\ history' = res.st.history
          /\ synergy' = res.st.synergy
          /\ last' = CheckinRecord("process_latest", w.entry_date, data,
                                   confirm /\ DOMAIN data # {}, FALSE,
                                   calculate_days_since_last_checkin(checkins, today),
                                   [applied |-> FALSE, st |-> st0], res, files)
    /\ UNCHANGED <<missions, rewards, checkins, today, nOps>>
    /\ UNCHANGED statVars

-----------------------------------------------------------------------------
(* Missions: add_new_mission, update_mission_progress, modify_mission,
   delete_mission *)

\* the answers of the add_new_mission form; every ability prompt of a bundle
\* gets the same answer
DefaultForm ==
    [title |-> "Fight Club", total_progress |-> Enter,
     health_complete |-> Enter, energy_complete |-> Enter, ability_complete |-> Enter,
     health_failure |-> Enter, energy_failure |-> Enter, ability_failure |-> Enter]

FilledForm ==
    [title |-> "Project Mayhem", total_progress |-> "2",
     health_complete |-> "60", energy_complete |-> "10", ability_complete |-> "1",
     health_failure |-> "-60", energy_failure |-> "-10", ability_failure |-> "-2"]

\* the bundle typed for one outcome: health, energy and every ability of the
\* archetype, no xp key
TypedBundle(alter_ego, health, energy, ability) ==
    [health |-> ParseInt(get_input(health, "0")),
     energy |-> ParseInt(get_input(energy, "0")),
     abilities |-> [a \in ALTER_EGOS[alter_ego].abilities |->
                        ParseInt(get_input(ability, "0"))]]

\* the end of add_new_mission: the mission file is written and the summary
\* refreshed; r is the result of the reward dialogue
SaveNewMission(w, mission, r) ==
    \E ms1 \in {save_json(missions,
                          FilePath("not-completed", mission.mission_code, mission.title),
                          [mission EXCEPT !.reward = r.reward])} :
       /\ missions' = ms1
       /\ rewards' = r.rewards
       /\ synergy' = update_synergy(r.synergy, egos, ms1, r.rewards)
       /\ waiting' = Return(w)
       /\ last' = [op |-> "add_mission", synced |-> TRUE,
                   mission |-> mission.mission_code, refreshed |-> TRUE]

\* add_new_mission from the answer at "Alter Ego": the mission code is
\* generated from the files on disk, then the form is asked
AddNewMission(alter_ego) ==
    /\ waiting' = waiting (+) SetToBag({[handler |-> "add_new_mission",
                                         at |-> "form",
                                         alter_ego |-> alter_ego,
                                         mission_code |->
                                            get_next_mission_id(alter_ego, missions)]})
    /\ last' = Asked
    /\ nOps' = nOps + 1
    /\ UNCHANGED <<egos, history, synergy, missions, rewards, checkins, today>>
    /\ UNCHANGED statVars

\* add_new_mission from the form and the answer at "Choose option (1-3)":
\* "1" enters create_reward, which reads the next reward id and asks the
\* title; "2" lists the locked rewards and asks which; without a reward, or
\* with none to link, the mission is written
AddNewMissionForm(w, form, reward_choice) ==
    /\ w.handler = "add_new_mission" /\ w.at = "form"
    /\ \E mission \in
            {[archetype |-> w.alter_ego,
              mission_code |-> w.mission_code,
              title |-> form.title,
              status |-> "not-started",
              progress |-> [current |-> 0,
                            total |-> ParseInt(get_input(form.total_progress, "1"))],
              archetype_stat_change |->
                  [on_complete |-> TypedBundle(w.alter_ego, form.health_complete,
                                      form.energy_complete, form.ability_complete),
                   on_failure |-> TypedBundle(w.alter_ego, form.health_failure,
                                      form.energy_failure, form.ability_failure)],
              reward |-> <<>>]} :
       \E locked_rewards \in {list_rewards(rewards, "locked")} :
          CASE reward_choice = "1" ->
                /\ waiting' = Resume(w, [handler |-> "add_new_mission",
                                         at |-> "reward_title", mission |-> mission,
                                         reward_id |-> get_next_reward_id(rewards)])
                /\ last' = Asked
                /\ UNCHANGED <<missions, rewards, synergy>>
            [] reward_choice = "2" /\ DOMAIN locked_rewards # {} ->
                /\ waiting' = Resume(w, [handler |-> "add_new_mission",
                                         at |-> "select_reward", mission |-> mission,
                                         rewards |-> locked_rewards])
                /\ last' = Asked
                /\ UNCHANGED <<missions, rewards, synergy>>
            [] OTHER ->
                SaveNewMission(w, mission, [rewards |-> rewards, synergy |-> synergy,
                                            reward |-> <<>>])
    /\ UNCHANGED <<egos, history, checkins, today, nOps>>
    /\ UNCHANGED statVars

\* add_new_mission from the answer of the reward dialogue: the reward file is
\* written (created under the id read before the prompt, or the listed copy
\* with the mission code appended), then the mission
AddNewMissionReward(w, answer) ==
    /\ w.handler = "add_new_mission" /\ w.at \in {"reward_title", "select_reward"}
    /\ answer \in RewardAnswers(w)
    /\ SaveNewMission(w, w.mission, MissionReward(w, answer, w.mission.mission_code))
    /\ UNCHANGED <<egos, history, checkins, today, nOps>>
    /\ UNCHANGED statVars

\* update_mission_progress up to "Select mission to update"
UpdateMissionProgress ==
    /\ InFolder(missions, "not-completed") # {}
    /\ waiting' = waiting (+) SetToBag({[handler |-> "update_mission_progress",
                                         at |-> "choice",
                                         missions |-> list_missions(missions,
                                                                    "not-completed")]})
    /\ last' = Asked
    /\ nOps' = nOps + 1
    /\ UNCHANGED <<egos, history, synergy, missions, rewards, checkins, today>>
    /\ UNCHANGED statVars

\* update_mission_progress from the choice and the typed value: a value in
\* 0..total is stored in the mission as it was listed and sets its status,
\* and that copy is saved; the summary is not refreshed. A total of 0 ends
\* the handler with ZeroDivisionError before the value is asked.
UpdateMissionProgressSave(w, mission_file, typed_progress) ==
    /\ w.handler = "update_mission_progress"
    /\ mission_file \in DOMAIN w.missions
    /\ LET current == w.missions[mission_file].progress.current
           total == w.missions[mission_file].progress.total
           new_val == ParseInt(get_input(typed_progress, ToString(current)))
           mission == [SetKey(w.missions[mission_file], "status",
                              IF new_val = 0 THEN "not-started" ELSE "in-progress")
                          EXCEPT !.progress.current = new_val]
       IN \E ms1 \in {IF total # 0 /\ 0 <= new_val /\ new_val <= total
                      THEN save_json(missions, mission_file, mission)
                      ELSE missions} :
          /\ missions' = ms1
          /\ last' = [op |-> "update_progress", mission |-> Stem(mission_file),
                      synced |-> Synced(FALSE, egos, ms1, rewards),
                      refreshed |-> FALSE]
    /\ waiting' = Return(w)
    /\ UNCHANGED <<egos, history, synergy, rewards, checkins, today, nOps>>
    /\ UNCHANGED statVars

StatusChoices == <<"not-started", "in-progress", "completed", "failed">>

\* answers tried at the "Status" prompt
TypedStatuses == {Enter, "in-progress", "blocked", "total"}

\* the answers of modify_mission with every prompt answered by Enter; the
\* reward dialogue is "keep", "create", "link" or "remove" (with the position
\* of the reward to remove)
DefaultAnswers ==
    [typed_title |-> Enter, typed_status |-> Enter, typed_current |-> Enter,
     typed_total |-> Enter, reward_action |-> "keep", index |-> 0]

\* the answers of modify_mission before the status menu: the status and
\* progress prompts tried together, and the title prompt tried with every
\* reward dialogue
MissionAnswers ==
    { [DefaultAnswers EXCEPT !.typed_status = s, !.typed_current = p[1],
                             !.typed_total = p[2]] :
            s \in TypedStatuses, p \in {<<Enter, Enter>>, <<"1", "2">>} }
    \cup
    { [DefaultAnswers EXCEPT !.typed_title = t, !.reward_action = a[1], !.index = a[2]] :
            t \in {Enter, "fight-club", "Project Mayhem"},
            a \in {<<"keep", 0>>, <<"create", 0>>, <<"link", 0>>, <<"remove", 1>>} }

\* modify_mission from the answer at "Folder": the missions of the folder
\* are listed
ModifyMission(folder) ==
    /\ InFolder(missions, folder) # {}
    /\ waiting' = waiting (+) SetToBag({[handler |-> "modify_mission",
                                         at |-> "choice",
                                         folder |-> folder,
                                         missions |-> list_missions(missions, folder)]})
    /\ last' = Asked
    /\ nOps' = nOps + 1
    /\ UNCHANGED <<egos, history, synergy, missions, rewards, checkins, today>>
    /\ UNCHANGED statVars

\* modify_mission from the choice of the mission to the next prompt behind a
\* disk access: the answers edit the mission as it was listed; "create"
\* reads the next reward id and asks the title, "link" lists the locked
\* rewards and asks which, "remove" pops the reward and rewrites its files,
\* and its `for folder in [REWARDS_LOCKED, REWARDS_UNLOCKED]` leaves the
\* local `folder` at REWARDS_UNLOCKED; then the status menu is asked
ModifyMissionEdit(w, mission_file, answers) ==
    /\ w.handler = "modify_mission" /\ w.at = "choice"
    /\ mission_file \in DOMAIN w.missions
    /\ answers.reward_action = "remove"
            => answers.index \in 1..Len(RewardList(w.missions[mission_file]))
    /\ LET listed == w.missions[mission_file]
           title == get_input(answers.typed_title, listed.title)
           \* the "Status" prompt stores whatever was typed
           kept == get_input(answers.typed_status, StatusOr(listed, "not-started"))
           progress ==
               [current |-> ParseInt(get_input(answers.typed_current,
                                ToString(listed.progress.current))),
                total |-> ParseInt(get_input(answers.typed_total,
                                ToString(listed.progress.total)))]
           mission == [SetKey(listed, "status", kept) EXCEPT
                          !.title = title, !.progress = progress]
           frame == [handler |-> "modify_mission", at |-> "status_choice",
                     folder |-> w.folder, mission_file |-> mission_file,
                     mission |-> mission, title_changed |-> (title # listed.title)]
           removed == RewardList(listed)[answers.index]
       IN \E locked_rewards \in {list_rewards(rewards, "locked")} :
          CASE answers.reward_action = "create" ->
                /\ waiting' = Resume(w, [frame @@ [reward_id |->
                                                      get_next_reward_id(rewards)]
                                            EXCEPT !.at = "reward_title"])
                /\ UNCHANGED rewards
            [] answers.reward_action = "link" /\ DOMAIN locked_rewards # {} ->
                /\ waiting' = Resume(w, [frame @@ [rewards |-> locked_rewards]
                                            EXCEPT !.at = "select_reward"])
                /\ UNCHANGED rewards
            [] answers.reward_action = "remove" ->
                /\ waiting' = Resume(w,
                        [frame EXCEPT
                            !.mission.reward = RemoveAt(@, answers.index),
                            !.folder = IF removed # NoId THEN "unlocked" ELSE @])
                /\ rewards' = IF removed = NoId THEN rewards
                              ELSE UnlinkMission(rewards,
                                       Glob(rewards, "locked", removed)
                                       \cup Glob(rewards, "unlocked", removed),
                                       listed.mission_code)
            [] OTHER ->
                /\ waiting' = Resume(w, frame)
                /\ UNCHANGED rewards
    /\ last' = [op |-> "status_asked", synced |-> Synced(FALSE, egos, missions, rewards')]
    /\ UNCHANGED <<egos, history, synergy, missions, checkins, today, nOps>>
    /\ UNCHANGED statVars

\* modify_mission from the answer of the reward dialogue: the reward file is
\* written (and the summary refreshed by create_reward) while the mission
\* file is still the old one, then the status menu is asked
ModifyMissionReward(w, answer) ==
    /\ w.handler = "modify_mission" /\ w.at \in {"reward_title", "select_reward"}
    /\ answer \in RewardAnswers(w)
    /\ \E r \in {MissionReward(w, answer, w.mission.mission_code)} :
          /\ rewards' = r.rewards
          /\ synergy' = r.synergy
          /\ waiting' = Resume(w,
                [handler |-> "modify_mission", at |-> "status_choice",
                 folder |-> w.folder, mission_file |-> w.mission_file,
                 mission |-> SetKey(w.mission, "reward",
                                    RewardList(w.mission) \o r.reward),
                 title_changed |-> w.title_changed])
          /\ last' = [op |-> "status_asked",
                      synced |-> Synced(w.at = "reward_title" /\ r.reward # <<>>,
                                        egos, missions, r.rewards)]
    /\ UNCHANGED <<egos, history, missions, checkins, today, nOps>>
    /\ UNCHANGED statVars

\* the store a folder belongs to
IsMissionFolder(folder) == folder \in {"not-completed", "completed"}

\* modify_mission from the answer at the status menu: the mission is moved
\* when `folder` is a missions folder and the status asks for the other one,
\* else written under its new name into `folder` when the title changed,
\* else saved in place and the summary refreshed. The old file is unlinked
\* after the new one is saved; nothing follows the unlink, so a file that is
\* gone by then changes nothing but the way the handler ends.
ModifyMissionStatus(w, status_choice) ==
    /\ w.handler = "modify_mission" /\ w.at = "status_choice"
    /\ LET new_status == IF status_choice > 1 THEN StatusChoices[status_choice - 1]
                         ELSE w.mission.status
           mission == [w.mission EXCEPT !.status = new_status]
           to_completed == status_choice > 1 /\ new_status \in {"completed", "failed"}
                           /\ w.folder = "not-completed"
           to_not_completed == status_choice > 1
                               /\ new_status \in {"not-started", "in-progress"}
                               /\ w.folder = "completed"
           new_file == IF to_completed
                       THEN FilePath("completed", mission.mission_code, mission.title)
                       ELSE IF to_not_completed
                       THEN FilePath("not-completed", mission.mission_code, mission.title)
                       ELSE IF w.title_changed
                       THEN FilePath(w.folder, mission.mission_code, mission.title)
                       ELSE w.mission_file
           refresh == ~to_completed /\ ~to_not_completed /\ ~w.title_changed
       IN \E ms0 \in {IF IsMissionFolder(new_file.folder)
                      THEN save_json(missions, new_file, mission) ELSE missions} :
          \E ms1 \in {IF new_file # w.mission_file THEN Unlink(ms0, w.mission_file)
                      ELSE ms0} :
          \E rs1 \in {IF IsMissionFolder(new_file.folder) THEN rewards
                      ELSE save_json(rewards, new_file, mission)} :
             /\ missions' = ms1
             /\ rewards' = rs1
             /\ synergy' = IF refresh THEN update_synergy(synergy, egos, ms1, rs1)
                           ELSE synergy
             /\ last' = [op |-> "modify_mission", mission |-> Stem(w.mission_file),
                         synced |-> Synced(refresh, egos, ms1, rs1),
                         refreshed |-> refresh]
    /\ waiting' = Return(w)
    /\ UNCHANGED <<egos, history, checkins, today, nOps>>
    /\ UNCHANGED statVars

\* delete_mission from the answer at "Folder"
DeleteMission(folder) ==
    /\ InFolder(missions, folder) # {}
    /\ waiting' = waiting (+) SetToBag({[handler |-> "delete_mission",
                                         at |-> "choice",
                                         missions |-> list_missions(missions, folder)]})
    /\ last' = Asked
    /\ nOps' = nOps + 1
    /\ UNCHANGED <<egos, history, synergy, missions, rewards, checkins, today>>
    /\ UNCHANGED statVars

\* delete_mission from the choice and the confirmation: unlink() of a file
\* that is gone ends the handler before update_synergy
DeleteMissionConfirm(w, mission_file, confirm) ==
    /\ w.handler = "delete_mission"
    /\ mission_file \in DOMAIN w.missions
    /\ \E ms1 \in {IF confirm THEN Unlink(missions, mission_file) ELSE missions} :
       \E refresh \in {confirm /\ mission_file \in DOMAIN missions} :
          /\ missions' = ms1
          /\ synergy' = IF refresh THEN update_synergy(synergy, egos, ms1, rewards)
                        ELSE synergy
          /\ last' = [op |-> "delete_mission", mission |-> Stem(mission_file),
                      synced |-> Synced(refresh, egos, ms1, rewards),
                      refreshed |-> refresh]
    /\ waiting' = Return(w)
    /\ UNCHANGED <<egos, history, rewards, checkins, today, nOps>>
    /\ UNCHANGED statVars

-----------------------------------------------------------------------------
(* The calendar *)

\* datetime.date.today() is read at each use: midnight passes between two
\* steps of the program
NextDay ==
    /\ today < MaxDay
    /\ today' = today + 1
    /\ last' = [op |-> "day", synced |-> last.synced]
    /\ UNCHANGED <<egos, history, synergy, missions, rewards, checkins, nOps, waiting>>
    /\ UNCHANGED statVars

-----------------------------------------------------------------------------
(* manage_rewards: create_reward, modify_reward, delete_reward *)

\* "Create New Reward" up to "Reward title": the next reward id is read
CreateReward ==
    /\ waiting' = waiting (+) SetToBag({[handler |-> "create_reward",
                                         at |-> "reward_title",
                                         reward_id |-> get_next_reward_id(rewards)]})
    /\ last' = Asked
    /\ nOps' = nOps + 1
    /\ UNCHANGED <<egos, history, synergy, missions, rewards, checkins, today>>
    /\ UNCHANGED statVars

\* "Create New Reward" from the title on: no mission is associated
CreateRewardSave(w, title) ==
    /\ w.handler = "create_reward"
    /\ \E c \in {create_reward(w.reward_id, title, <<>>, synergy, egos, missions,
                               rewards)} :
          /\ rewards' = c.rewards
          /\ synergy' = c.synergy
          /\ last' = [op |-> "create_reward", reward |-> w.reward_id,
                      synced |-> Synced(c.reward # <<>>, egos, missions, c.rewards),
                      refreshed |-> (c.reward # <<>>)]
    /\ waiting' = Return(w)
    /\ UNCHANGED <<egos, history, missions, checkins, today, nOps>>
    /\ UNCHANGED statVars

KeepMissions == [action |-> "keep", mission_id |-> "", index |-> 0]

\* the answers of the association dialogue of modify_reward; the codes
\* typed at "Enter mission code" are "T001" and "m001"
MissionFlows(associated) ==
    {KeepMissions}
    \cup {[KeepMissions EXCEPT !.action = "add", !.mission_id = c] : c \in {"T001", "m001"}}
    \cup {[KeepMissions EXCEPT !.action = "remove", !.index = i] :
                i \in 1..Len(associated)}

\* mission_id.upper() of the codes that are typed
Upper(mission_id) == IF mission_id = "m001" THEN "M001" ELSE mission_id

\* modify_reward from the answer at "Folder": the rewards of the folder are
\* listed
ModifyReward(folder) ==
    /\ InFolder(rewards, folder) # {}
    /\ waiting' = waiting (+) SetToBag({[handler |-> "modify_reward",
                                         at |-> "choice",
                                         rewards |-> list_rewards(rewards, folder)]})
    /\ last' = Asked
    /\ nOps' = nOps + 1
    /\ UNCHANGED <<egos, history, synergy, missions, rewards, checkins, today>>
    /\ UNCHANGED statVars

\* the answers at "Title" of modify_reward: Enter keeps the title
RewardTitles == {Enter, "Soap", "Lye"}

\* modify_reward from the choice on: the reward as it was listed is edited.
\* With a new title it is saved under the file name of that title and the
\* listed file is removed; reward['reward_id'] of a document without the key
\* ends the handler before the save, unlink() of a file that is gone ends it
\* before update_synergy. Otherwise the reward is saved to its file. The
\* summary is refreshed after the save.
ModifyRewardSave(w, reward_file, new_title, mission_flow) ==
    /\ w.handler = "modify_reward"
    /\ reward_file \in DOMAIN w.rewards
    /\ mission_flow \in MissionFlows(Associated(w.rewards[reward_file]))
    /\ LET old_title == w.rewards[reward_file].title
           title_changed == new_title # Enter /\ new_title # old_title
           current_missions == Associated(w.rewards[reward_file])
           associated ==
               CASE mission_flow.action = "add" ->
                        \* the typed text is looked up, its upper case is stored
                        IF Contains(current_missions, mission_flow.mission_id)
                        THEN current_missions
                        ELSE Append(current_missions, Upper(mission_flow.mission_id))
                 [] mission_flow.action = "remove" ->
                        RemoveAt(current_missions, mission_flow.index)
                 [] OTHER -> current_missions
           titled == IF title_changed
                     THEN SetKey(w.rewards[reward_file], "title", new_title)
                     ELSE w.rewards[reward_file]
           reward == IF mission_flow.action = "keep" THEN titled
                     ELSE SetKey(titled, "associated_mission_ids", associated)
           named == "reward_id" \in DOMAIN reward
           new_filepath == FilePath(reward_file.folder, RewardId(reward), reward.title)
       IN \E rs1 \in {IF ~title_changed THEN save_json(rewards, reward_file, reward)
                      ELSE IF ~named THEN rewards
                      ELSE IF new_filepath # reward_file
                      THEN Unlink(save_json(rewards, new_filepath, reward), reward_file)
                      ELSE save_json(rewards, new_filepath, reward)} :
          \E refresh \in {\/ ~title_changed
                          \/ named /\ (new_filepath = reward_file
                                          \/ reward_file \in DOMAIN rewards)} :
             /\ rewards' = rs1
             /\ synergy' = IF refresh THEN update_synergy(synergy, egos, missions, rs1)
                           ELSE synergy
             /\ last' = [op |-> "modify_reward", reward |-> Stem(reward_file),
                         synced |-> Synced(refresh, egos, missions, rs1),
                         refreshed |-> refresh]
    /\ waiting' = Return(w)
    /\ UNCHANGED <<egos, history, missions, checkins, today, nOps>>
    /\ UNCHANGED statVars

\* delete_reward from the answer at "Folder"
DeleteReward(folder) ==
    /\ InFolder(rewards, folder) # {}
    /\ waiting' = waiting (+) SetToBag({[handler |-> "delete_reward",
                                         at |-> "choice",
                                         rewards |-> list_rewards(rewards, folder)]})
    /\ last' = Asked
    /\ nOps' = nOps + 1
    /\ UNCHANGED <<egos, history, synergy, missions, rewards, checkins, today>>
    /\ UNCHANGED statVars

\* the loop of delete_reward over the missions the reward names: every file
\* of such a mission, in either folder, is rewritten without the reward
UnlinkRewardFrom(ms, reward_id, mission_ids) ==
    [f \in DOMAIN ms |->
        IF Contains(mission_ids, f.code)
        THEN SetKey(ms[f], "reward",
                    SelectSeq(RewardList(ms[f]), LAMBDA x : x # reward_id))
        ELSE ms[f]]

\* delete_reward from the choice and the confirmation: the reward as it was
\* listed names the missions to rewrite, then its file is removed; unlink()
\* of a file that is gone ends the handler before update_synergy
DeleteRewardConfirm(w, reward_file, confirm) ==
    /\ w.handler = "delete_reward"
    /\ reward_file \in DOMAIN w.rewards
    /\ \E ms1 \in {IF confirm
                   THEN UnlinkRewardFrom(missions, RewardId(w.rewards[reward_file]),
                                         Associated(w.rewards[reward_file]))
                   ELSE missions} :
       \E rs1 \in {IF confirm THEN Unlink(rewards, reward_file) ELSE rewards} :
       \E refresh \in {confirm /\ reward_file \in DOMAIN rewards} :
          /\ missions' = ms1
          /\ rewards' = rs1
          /\ synergy' = IF refresh THEN update_synergy(synergy, egos, ms1, rs1)
                        ELSE synergy
          /\ last' = [op |-> "delete_reward", reward |-> Stem(reward_file),
                      synced |-> Synced(refresh, egos, ms1, rs1),
                      refreshed |-> refresh]
    /\ waiting' = Return(w)
    /\ UNCHANGED <<egos, history, checkins, today, nOps>>
    /\ UNCHANGED statVars

-----------------------------------------------------------------------------
(* apply_missed_checkin_penalty called directly *)

AllFailed == [h \in Habits |-> "failed"]

\* the daily-progress files on disk at the time of the call; the last two
\* sets hold a file that does not parse
PenaltyFileSets(now) ==
    { [d \in S |-> AllFailed] :
          S \in { {}, {now}, {now - 2}, {now - 3}, {now - MaxBack - 1},
                  {now - MaxBack - 1, now - 1} } }
    \cup { [d \in {now - 1, now} |-> IF d = now THEN NoData ELSE AllFailed],
           [d \in {now - 1, now} |-> IF d = now THEN AllFailed ELSE NoData] }

SecondLevel(ego, xp) ==
    [ego EXCEPT !.level = 2,
                !.title = XpRules.levels["2"].title,
                !.xp_details = [current_xp |-> xp,
                                xp_to_next_level |-> XpRules.levels["2"].xp_to_next_level]]

PenaltyEgos ==
    { InitEgos,
      [InitEgos EXCEPT !["tyler"] = SecondLevel(@, 3)],
      [InitEgos EXCEPT !["kei"] = SecondLevel(@, 12),
                       !["mr-robot"] = MakeEgo("mr-robot", 7, 4, 100, 1, 100)],
      \* XP sum 170: the summary is at level 2 and a later update reaches level 3
      [InitEgos EXCEPT !["tyler"] = MakeEgo("tyler", 90, 95, 100, 50, 100),
                       !["mr-robot"] = MakeEgo("mr-robot", 50, 50, 100, 95, 100),
                       !["kei"] = MakeEgo("kei", 30, 2, 100, 2, 100)] }

InitPenalty ==
    /\ egos \in PenaltyEgos
    /\ history = <<>>
    /\ synergy = update_synergy(BlankSynergy, egos, InitMissions, InitRewards)
    /\ missions = InitMissions
    /\ rewards = InitRewards
    /\ checkins = NoFiles
    /\ today = 0
    /\ last = NoOp
    /\ nOps = 0
    /\ waiting = EmptyBag
    /\ StatIdle

\* one call, with the files and the rules document as they are at that time
PenaltyCall ==
    \E files \in PenaltyFileSets(today), rules_readable \in BOOLEAN :
        /\ nOps < MaxCalls
        /\ \E st0 \in {[egos |-> egos, history |-> history, synergy |-> synergy]} :
           \E r \in {apply_missed_checkin_penalty(st0, files, missions, rewards, today,
                         load_daily_progress_rules(rules_readable))} :
              /\ checkins' = files
              /\ egos' = r.st.egos
              /\ history' = r.st.history
              /\ synergy' = r.st.synergy
              /\ last' = [op |-> "penalty", synced |-> (r.applied \/ last.synced),
                          applied |-> r.applied,
                          rules |-> load_daily_progress_rules(rules_readable),
                          egos |-> egos, history |-> history, synergy |-> synergy]
        /\ nOps' = nOps + 1
        /\ UNCHANGED <<missions, rewards, today, waiting>>
        /\ UNCHANGED statVars

-----------------------------------------------------------------------------
(* The level-up loop of apply_stat_changes, one iteration per step *)

\* level tables: the configured one, one with level 2 missing, one whose
\* last level still has a threshold, and the empty rules document
LoopTables ==
    { XpRules,
      [XpRules EXCEPT !.levels =
          [k \in {"1", "3"} |-> XpRules.levels[k]]],
      [XpRules EXCEPT !.levels =
          [k \in {"1", "2", "3"} |->
              [xp_to_next_level |-> CASE k = "1" -> 100 [] k = "2" -> 250 [] k = "3" -> 40,
               title |-> XpRules.levels[k].title]]],
      NoRules }

InitLoop ==
    /\ EngineInit
    /\ StatCallIdle
    /\ procs = ProcsIdle
    /\ \E e \in { MakeEgo("tyler", x, 50, 100, 50, 100) : x \in {0, 60} },
          x \in {0, 30, 120, 400, 1000, -40}, t \in LoopTables :
          lvl = [pc |-> "apply", ego |-> e, start |-> e, xp_change |-> x,
                 rules |-> t, xp_to_next |-> NoThreshold]

\* Variant: the threshold of the new level is not taken over
LevelUpOnce_KeepThreshold(ego, xp_to_next, rules) ==
    LET new_level_data == LevelEntry(rules, ego.level + 1)
    IN [ego EXCEPT
          !.xp_details.current_xp = @ - xp_to_next,
          !.level = @ + 1,
          !.title = IF "title" \in DOMAIN new_level_data
                    THEN new_level_data.title ELSE @]

\* the body of the while loop
LevelUpOnce(ego, xp_to_next, rules) ==
    LET new_level_data == LevelEntry(rules, ego.level + 1)
    IN [ego EXCEPT
          !.xp_details.current_xp = @ - xp_to_next,
          !.level = @ + 1,
          !.title = IF "title" \in DOMAIN new_level_data
                    THEN new_level_data.title ELSE @,
          !.xp_details.xp_to_next_level = new_level_data.xp_to_next_level]

\* `if 'xp' in changes and changes['xp'] != 0:` up to the first loop test
LoopEnter ==
    /\ lvl.pc = "apply"
    /\ lvl' = IF lvl.xp_change = 0
              THEN [lvl EXCEPT !.pc = "done"]
              ELSE [lvl EXCEPT
                      !.pc = "test",
                      !.ego.xp_details.current_xp = @ + lvl.xp_change,
                      !.xp_to_next = LevelEntry(lvl.rules, lvl.ego.level).xp_to_next_level]
    /\ UNCHANGED <<sEgo, sLast, sCalls, sNegXp, procs>>
    /\ UNCHANGED engineVars

LoopTest == lvl.xp_to_next # NoThreshold
            /\ lvl.ego.xp_details.current_xp >= lvl.xp_to_next

LoopIterate ==
    /\ lvl.pc = "test" /\ LoopTest
    /\ LET ego2 == LevelUpOnce(lvl.ego, lvl.xp_to_next, lvl.rules)
       IN lvl' = [lvl EXCEPT !.ego = ego2,
                             !.xp_to_next = ego2.xp_details.xp_to_next_level]
    /\ UNCHANGED <<sEgo, sLast, sCalls, sNegXp, procs>>
    /\ UNCHANGED engineVars

LoopExit ==
    /\ lvl.pc = "test" /\ ~LoopTest
    /\ lvl' = [lvl EXCEPT !.pc = "done"]
    /\ UNCHANGED <<sEgo, sLast, sCalls, sNegXp, procs>>
    /\ UNCHANGED engineVars

-----------------------------------------------------------------------------
(* Two processes appending to the ledger *)

Procs == {1, 2}

\* each process records the missed-check-in penalty of one alter-ego, as
\* apply_missed_checkin_penalty builds the entry when no check-in exists
LedgerEntry(p, index) ==
    LET archetype == ArchetypeOrder[p]
        penalties == DailyProgressRules.missed_checkin_penalty.penalties
        before == InitEgos[archetype]
    IN [PenaltyEntry(<<>>, archetype, before, PenalizeEgo(before, penalties),
                     penalties, NoCheckinDays, 0)
            EXCEPT !.history_index = index]

\* json.dump(..., indent=2) in bytes. The field alter_ego is the key
\* "alter-ego", of the same length.

\* len(str(n))
IntSize(n) == Len(ToString(n))

\* a string in its quotes
StringSize(s) == Len(s) + 2

\* date.isoformat(): YYYY-MM-DD
IsoDateLength == 10

\* a dict whose values take sizes[k] bytes, itself nested `level` deep: every
\* item on a line of its own, indented by 2 * (level + 1), and the closing
\* brace indented by 2 * level
ObjectSize(sizes, level) ==
    IF DOMAIN sizes = {} THEN 2
    ELSE 3 + 2 * level + (Cardinality(DOMAIN sizes) - 1)
         + SumOver([k \in DOMAIN sizes |-> 1 + 2 * (level + 1) + Len(k) + 4 + sizes[k]],
                   DOMAIN sizes)

\* a dict of integers
IntsSize(d, level) == ObjectSize([k \in DOMAIN d |-> IntSize(d[k])], level)

\* one ledger entry of the penalty kind, inside the list
EntrySize(e) ==
    ObjectSize(
        [k \in DOMAIN e |->
            CASE k \in {"alter_ego", "event_type"} -> StringSize(e[k])
              [] k = "date" -> IsoDateLength + 2
              [] k = "delta_changed" ->
                    ObjectSize([j \in DOMAIN e[k] |->
                                   IF j = "abilities" THEN IntsSize(e[k][j], 3)
                                   ELSE IntSize(e[k][j])], 2)
              [] k = "state_after_delta_applied" ->
                    ObjectSize([j \in DOMAIN e[k] |->
                                   CASE j = "abilities" -> IntsSize(e[k][j], 3)
                                     [] j = "title" -> StringSize(e[k][j])
                                     [] OTHER -> IntSize(e[k][j])], 2)
              [] OTHER -> IntSize(e[k])],
        1)

\* the length of the text of the ledger file: "[]", or every entry on lines
\* of its own, indented by 2 and separated by commas
DumpSize(h) ==
    IF h = <<>> THEN 2
    ELSE 3 + (Len(h) - 1)
         + SumOver([i \in 1..Len(h) |-> 3 + EntrySize(h[i])], 1..Len(h))

InitLedger ==
    /\ EngineInit
    /\ StatCallIdle
    /\ lvl = LoopIdle
    /\ procs = [pc |-> [p \in Procs |-> "idle"],
                index |-> [p \in Procs |-> 0],
                loaded |-> [p \in Procs |-> <<>>],
                appended |-> [p \in Procs |-> 0],
                overlapped |-> FALSE,
                \* history.json: its length in bytes, and whether it parses
                size |-> DumpSize(<<>>),
                torn |-> FALSE]

\* another process is between its first read and its write
OtherBusy(p) == \E q \in Procs \ {p} : procs.pc[q] # "idle"

\* get_next_history_index(): reads the file
ReadIndex(p) ==
    /\ procs.pc[p] = "idle"
    /\ procs.appended[p] < MaxAppends
    /\ procs' = [procs EXCEPT !.pc[p] = "indexed",
                              !.index[p] = get_next_history_index(history),
                              !.overlapped = @ \/ OtherBusy(p)]
    /\ UNCHANGED <<sEgo, sLast, sCalls, sNegXp, lvl>>
    /\ UNCHANGED engineVars

\* record_history(): `history = json.load(f)`
LoadLedger(p) ==
    /\ procs.pc[p] = "indexed"
    /\ procs' = [procs EXCEPT !.pc[p] = "loaded",
                              !.loaded[p] = history,
                              !.overlapped = @ \/ OtherBusy(p)]
    /\ UNCHANGED <<sEgo, sLast, sCalls, sNegXp, lvl>>
    /\ UNCHANGED engineVars

\* record_history(): `history.append(event_data)` and
\* `open(HISTORY_FILE, 'w')`, which empties the file; a reader of the empty
\* file gets JSONDecodeError, that is index 1 and the ledger []
OpenLedger(p) ==
    /\ procs.pc[p] = "loaded"
    /\ history' = <<>>
    /\ procs' = [procs EXCEPT !.pc[p] = "opened",
                              !.loaded[p] = record_history(@, LedgerEntry(p, procs.index[p])),
                              !.size = 0,
                              !.torn = TRUE,
                              !.overlapped = @ \/ OtherBusy(p)]
    /\ UNCHANGED <<sEgo, sLast, sCalls, sNegXp, lvl>>
    /\ UNCHANGED <<egos, synergy, missions, rewards, checkins, today, last, nOps, waiting>>

\* record_history(): `json.dump(history, f)`, flushed when the file is
\* closed: the text is written at offset 0 of the file as it is now; a text
\* shorter than the file leaves the tail of another writer's text behind it,
\* and the file does not parse
SaveLedger(p) ==
    /\ procs.pc[p] = "opened"
    /\ \E whole \in {DumpSize(procs.loaded[p]) >= procs.size} :
          /\ history' = IF whole THEN procs.loaded[p] ELSE <<>>
          /\ procs' = [procs EXCEPT !.pc[p] = "idle",
                                    !.appended[p] = @ + 1,
                                    !.size = IF whole THEN DumpSize(procs.loaded[p])
                                             ELSE @,
                                    !.torn = ~whole,
                                    !.overlapped = @ \/ OtherBusy(p)]
    /\ UNCHANGED <<sEgo, sLast, sCalls, sNegXp, lvl>>
    /\ UNCHANGED <<egos, synergy, missions, rewards, checkins, today, last, nOps, waiting>>

-----------------------------------------------------------------------------
(* Mission files as they can be found on disk, edited through modify_mission *)

\* a mission file written without a "status" key
WithoutStatus(mission) == [k \in DOMAIN mission \ {"status"} |-> mission[k]]

MissionSets ==
    { InitMissions,
      (FilePath("not-completed", "T001", "Fight Club") :> WithoutStatus(T001Mission))
        @@ (FilePath("not-completed", "M001", "Fight Club") :> M001Mission),
      (FilePath("not-completed", "T001", "Fight Club") :> T001Mission)
        @@ (FilePath("completed", "M001", "Fight Club") :> WithoutStatus(M001Mission)),
      (FilePath("completed", "T001", "Fight Club")
            :> [T001Mission EXCEPT !.status = "failed"])
        @@ (FilePath("not-completed", "M001", "Fight Club") :> M001Mission) }

InitMissionFiles ==
    /\ egos = InitEgos
    /\ history = <<>>
    /\ missions \in MissionSets
    /\ synergy = update_synergy(BlankSynergy, InitEgos, missions, InitRewards)
    /\ rewards = InitRewards
    /\ checkins = NoFiles
    /\ today = 0
    /\ last = NoOp
    /\ nOps = 0
    /\ waiting = EmptyBag
    /\ StatIdle

-----------------------------------------------------------------------------
(* The two multi-character passes called with a character record missing *)

PartialEgos ==
    { [InitEgos EXCEPT ![a] = NoEgo] : a \in Archetypes }
    \cup { [InitEgos EXCEPT !["tyler"] = MakeEgo("tyler", 90, 95, 100, 50, 100),
                            !["mr-robot"] = NoEgo] }

InitPartial ==
    /\ egos \in PartialEgos
    /\ history = <<>>
    /\ synergy = update_synergy(BlankSynergy, egos, InitMissions, InitRewards)
    /\ missions = InitMissions
    /\ rewards = InitRewards
    /\ checkins = NoFiles
    /\ today = 0
    /\ last = NoOp
    /\ nOps = 0
    /\ waiting = EmptyBag
    /\ StatIdle

\* one call of apply_habit_rewards
HabitCall ==
    \E habit_results \in CheckinResults, files \in RulesFiles :
        /\ nOps < MaxCalls
        /\ \E st0 \in {[egos |-> egos, history |-> history, synergy |-> synergy]} :
           \E r \in {apply_habit_rewards(st0, habit_results, missions, rewards, today,
                                         files.rules, files.xp_rules)} :
              /\ egos' = r.st.egos
              /\ history' = r.st.history
              /\ synergy' = r.st.synergy
              /\ last' = [op |-> "habits",
                          synced |-> (r.total_xp_earned > 0 \/ last.synced),
                          applied |-> (r.total_xp_earned > 0),
                          results |-> habit_results,
                          total_xp_earned |-> r.total_xp_earned,
                          milestone_bonuses |-> r.milestone_bonuses,
                          egos |-> egos, history |-> history, synergy |-> synergy]
        /\ nOps' = nOps + 1
        /\ UNCHANGED <<missions, rewards, checkins, today, waiting>>
        /\ UNCHANGED statVars

-----------------------------------------------------------------------------
(* Specifications *)

\* the handlers of one kind that wait at a prompt
Waiting(handler) == {w \in BagToSet(waiting) : w.handler = handler}

\* ... and at one prompt
WaitingAt(handler, at) == {w \in Waiting(handler) : w.at = at}

\* every date a daily-progress file can carry
Dates == (0 - MaxBack)..MaxDay

MissionFolders == {"not-completed", "completed"}

RewardFolders == {"locked", "unlocked"}

\* the steps that continue a handler from the prompt it waits at
Continue ==
    \/ \E w \in Waiting("add_daily_progress"), r \in CheckinResults :
          AddDailyProgressSave(w, r)
    \/ \E w \in Waiting("add_daily_progress"), p \in BOOLEAN, f \in RulesFiles :
          AddDailyProgressProcess(w, p, f)
    \/ \E w \in Waiting("add_daily_progress"), q \in BOOLEAN, f \in RulesFiles :
          AddDailyProgressPenalty(w, q, f)
    \/ \E w \in Waiting("modify_daily_progress"), d \in Dates :
          ModifyDailyProgressLoad(w, d)
    \/ \E w \in Waiting("modify_daily_progress"), e \in HabitEdits :
          ModifyDailyProgressSave(w, e)
    \/ \E w \in Waiting("modify_daily_progress"), p \in BOOLEAN, f \in RulesFiles :
          ModifyDailyProgressReprocess(w, p, f)
    \/ \E w \in Waiting("delete_daily_progress"), d \in Dates, c \in BOOLEAN :
          DeleteDailyProgressConfirm(w, d, c)
    \/ \E w \in Waiting("process_latest_daily_progress"), c \in BOOLEAN,
          f \in RulesFiles :
          ProcessLatestDailyProgressConfirm(w, c, f)
    \/ \E w \in Waiting("mark_mission_completed") :
          \E m \in DOMAIN w.missions, x \in BOOLEAN : MarkMissionCompletedChoice(w, m, x)
    \/ \E w \in Waiting("mark_mission_failed") :
          \E m \in DOMAIN w.missions, x \in BOOLEAN : MarkMissionFailedChoice(w, m, x)

\* the menu loop is followed for MaxOps choices
\* main_menu: options 2 (view entries), 11 (view missions) and a handler that
\* is cancelled write nothing; option 13 leaves the program. A handler that
\* waits at a prompt continues in a later step: steps of another running copy
\* of the program, and midnight, fall in between.
Next ==
    \/ \E d \in EntryDates(today) : nOps < MaxOps /\ AddDailyProgress(d)
    \/ nOps < MaxOps /\ ModifyDailyProgress
    \/ nOps < MaxOps /\ DeleteDailyProgress
    \/ nOps < MaxOps /\ ProcessLatestDailyProgress
    \/ nOps < MaxOps /\ MarkMissionCompleted
    \/ nOps < MaxOps /\ MarkMissionFailed
    \/ Continue
    \/ \E a \in Archetypes : nOps < MaxOps /\ AddNewMission(a)
    \/ \E w \in Waiting("add_new_mission"), f \in {DefaultForm, FilledForm},
          c \in {"1", "2", "3"} : AddNewMissionForm(w, f, c)
    \/ \E w \in Waiting("add_new_mission") :
          \E a \in RewardAnswers(w) : AddNewMissionReward(w, a)
    \/ nOps < MaxOps /\ UpdateMissionProgress
    \/ \E w \in Waiting("update_mission_progress") :
          \E m \in DOMAIN w.missions, t \in {Enter, "0", "1", "2"} :
              UpdateMissionProgressSave(w, m, t)
    \/ \E folder \in MissionFolders : nOps < MaxOps /\ ModifyMission(folder)
    \/ \E w \in WaitingAt("modify_mission", "choice") :
          \E m \in DOMAIN w.missions, a \in MissionAnswers : ModifyMissionEdit(w, m, a)
    \/ \E w \in Waiting("modify_mission") :
          \E a \in RewardAnswers(w) : ModifyMissionReward(w, a)
    \/ \E w \in Waiting("modify_mission"), c \in 1..(Len(StatusChoices) + 1) :
          ModifyMissionStatus(w, c)
    \/ \E folder \in MissionFolders : nOps < MaxOps /\ DeleteMission(folder)
    \/ \E w \in Waiting("delete_mission") :
          \E m \in DOMAIN w.missions, c \in BOOLEAN : DeleteMissionConfirm(w, m, c)
    \/ nOps < MaxOps /\ CreateReward
    \/ \E w \in Waiting("create_reward"), t \in {Enter, "Soap", "Lye"} :
          CreateRewardSave(w, t)
    \/ \E folder \in RewardFolders : nOps < MaxOps /\ ModifyReward(folder)
    \/ \E w \in Waiting("modify_reward") :
          \E r \in DOMAIN w.rewards :
              \E t \in RewardTitles, f \in MissionFlows(Associated(w.rewards[r])) :
                  ModifyRewardSave(w, r, t, f)
    \/ \E folder \in RewardFolders : nOps < MaxOps /\ DeleteReward(folder)
    \/ \E w \in Waiting("delete_reward") :
          \E r \in DOMAIN w.rewards, c \in BOOLEAN : DeleteRewardConfirm(w, r, c)
    \/ NextDay

Spec == Init /\ [][Next]_vars

\* the harnesses below make MaxCalls calls
StatNext == StatCall

SpecStat == InitStat /\ [][StatNext]_vars

PenaltyNext == PenaltyCall

SpecPenalty == InitPenalty /\ [][PenaltyNext]_vars

LedgerNext ==
    \E p \in Procs : ReadIndex(p) \/ LoadLedger(p) \/ OpenLedger(p) \/ SaveLedger(p)

SpecLedger == InitLedger /\ [][LedgerNext]_vars

LoopNext == LoopEnter \/ LoopIterate \/ LoopExit

\* the loop is sequential code: a step that can be taken is taken
SpecLoop == InitLoop /\ [][LoopNext]_vars /\ WF_vars(LoopNext)

\* one running copy of the program: the menu is shown when no handler waits
AtMenu == waiting = EmptyBag /\ nOps < MaxCalls

\* modify_mission and the two outcomes on the mission files found on disk,
\* by one running copy; status menu entries tried: keep, not-started, completed
MissionsNext ==
    \/ \E folder \in MissionFolders : AtMenu /\ ModifyMission(folder)
    \/ \E w \in WaitingAt("modify_mission", "choice") :
          \E m \in DOMAIN w.missions, s \in TypedStatuses,
             t \in {Enter, "Project Mayhem"} :
              ModifyMissionEdit(w, m, [DefaultAnswers EXCEPT !.typed_status = s,
                                                             !.typed_title = t])
    \/ \E w \in Waiting("modify_mission"), c \in {1, 2, 4} : ModifyMissionStatus(w, c)
    \/ AtMenu /\ MarkMissionCompleted
    \/ \E w \in Waiting("mark_mission_completed") :
          \E m \in DOMAIN w.missions : MarkMissionCompletedChoice(w, m, TRUE)
    \/ AtMenu /\ MarkMissionFailed
    \/ \E w \in Waiting("mark_mission_failed") :
          \E m \in DOMAIN w.missions : MarkMissionFailedChoice(w, m, TRUE)

SpecMissions == InitMissionFiles /\ [][MissionsNext]_vars

PartialNext == PenaltyCall \/ HabitCall

SpecPartial == InitPartial /\ [][PartialNext]_vars

\* the handlers that write the ledger and the characters, over longer runs of
\* one running copy: the check-in handlers (process_latest_daily_progress
\* included) and the two mission outcomes; midnight can pass at any prompt
EngineNext ==
    \/ \E d \in EntryDates(today) : AtMenu /\ AddDailyProgress(d)
    \/ AtMenu /\ ModifyDailyProgress
    \/ AtMenu /\ DeleteDailyProgress
    \/ AtMenu /\ ProcessLatestDailyProgress
    \/ AtMenu /\ MarkMissionCompleted
    \/ AtMenu /\ MarkMissionFailed
    \/ Continue
    \/ NextDay

SpecEngine == Init /\ [][EngineNext]_vars

-----------------------------------------------------------------------------
(* Properties *)

Overflow == XpRules.health_energy_overflow

Threshold(level) == LevelEntry(XpRules, level).xp_to_next_level

\* XP accumulated over all the levels gained so far plus the current XP
RECURSIVE PassedXp(_)
PassedXp(level) ==
    IF level <= 1 THEN 0 ELSE Threshold(level - 1) + PassedXp(level - 1)

CumulativeXp(ego) == PassedXp(ego.level) + ego.xp_details.current_xp

StatsNonNegative(ego) ==
    /\ ego.xp_details.current_xp >= 0
    /\ ego.health_details.current_health >= 0
    /\ ego.energy_details.current_energy >= 0
    /\ \A a \in DOMAIN ego.abilities : ego.abilities[a] >= 0

XpRequested == sLast.called /\ HasKey(sLast.changes, "xp") /\ sLast.changes.xp # 0

\* C1: over calls of apply_stat_changes whose requested XP deltas are all
\* non-negative, on a character that starts with current_xp >= 0, current_xp
\* is never negative after a call and the level never decreases.
C1_XpNonNegativeLevelMonotone ==
    (sLast.called /\ ~sNegXp) =>
        /\ sEgo.xp_details.current_xp >= 0
        /\ sEgo.level >= sLast.before.level

C1_Witness ==
    /\ sCalls >= 2 /\ ~sNegXp
    /\ XpRequested
    /\ sLast.before.level = 2
    /\ sEgo.level = 3

OnlyHealth(ch) ==
    /\ ch.health # 0 /\ ch.energy = 0
    /\ (HasKey(ch, "xp") => ch.xp = 0)
    /\ \A a \in DOMAIN ch.abilities : ch.abilities[a] = 0

OnlyEnergy(ch) ==
    /\ ch.energy # 0 /\ ch.health = 0
    /\ (HasKey(ch, "xp") => ch.xp = 0)
    /\ \A a \in DOMAIN ch.abilities : ch.abilities[a] = 0

\* C2: a call with a nonzero delta for one of health/energy only, whose sum
\* reaches the stat's maximum, leaves that stat at the configured reset
\* percentage and the other stat raised by exactly the configured bonus,
\* whatever the excess over the maximum.
C2_OverflowResetAndBonus ==
    sLast.called =>
        LET b == sLast.before
            ch == sLast.changes
        IN /\ (OnlyHealth(ch)
                /\ b.health_details.current_health + ch.health
                        >= b.health_details.max_health)
              => /\ sEgo.health_details.current_health = Overflow.overflow_reset_percentage
                 /\ sEgo.energy_details.current_energy =
                        b.energy_details.current_energy + Overflow.overflow_bonus_to_other_stat
           /\ (OnlyEnergy(ch)
                /\ b.energy_details.current_energy + ch.energy
                        >= b.energy_details.max_energy)
              => /\ sEgo.energy_details.current_energy = Overflow.overflow_reset_percentage
                 /\ sEgo.health_details.current_health =
                        b.health_details.current_health + Overflow.overflow_bonus_to_other_stat

\* health 95/100, +10, energy 50: health 20, energy 60
C2_Witness ==
    /\ sLast.called /\ OnlyHealth(sLast.changes)
    /\ sLast.changes.health = 10
    /\ sLast.before.health_details.current_health = 95
    /\ sLast.before.energy_details.current_energy = 50
    /\ sEgo.health_details.current_health = 20
    /\ sEgo.energy_details.current_energy = 60

Penalized == last.op = "checkin" /\ last.penalized

\* C3: after apply_missed_checkin_penalty has applied a penalty, every
\* character's current_xp, current_health, current_energy and every ability
\* are >= 0, also when the penalty is larger than the value before.
C3_PenaltyFloorsAtZero ==
    Penalized => \A a \in Archetypes : StatsNonNegative(last.penalized_egos[a])

C3_Witness ==
    /\ Penalized
    /\ \E a \in Archetypes :
        /\ last.egos[a].xp_details.current_xp
              < -DailyProgressRules.missed_checkin_penalty.penalties.xp
        /\ last.egos[a].health_details.current_health
              < -DailyProgressRules.missed_checkin_penalty.penalties.health
        /\ last.penalized_egos[a].xp_details.current_xp = 0
        /\ last.penalized_egos[a].health_details.current_health = 0
    /\ \E a \in Archetypes : \E b \in DOMAIN last.egos[a].abilities :
        last.egos[a].abilities[b] < 0

EntryKind(e) == IF "event_type" \in DOMAIN e THEN e.event_type ELSE e.state

\* C4: from an empty ledger, after any sequence of mission completions,
\* mission failures, check-ins with streak milestones and missed-check-in
\* penalties, the history_index values in append order are 1, 2, 3, ...
C4_HistoryIndexesConsecutive ==
    \A i \in 1..Len(history) : history[i].history_index = i

C4_Witness ==
    /\ \E i \in 1..Len(history) : EntryKind(history[i]) = "completed"
    /\ \E i \in 1..Len(history) : EntryKind(history[i]) = "failed"
    /\ \E i, j \in 1..Len(history) :
        /\ i < j
        /\ EntryKind(history[i]) = "missed_checkin_penalty"
        /\ EntryKind(history[j]) = "streak_milestone"
        /\ history[i].alter_ego # history[j].alter_ego

\* the part of synergy.json that update_synergy recomputes
Summary(syn) ==
    [level |-> syn.level, chapter |-> syn.chapter, description |-> syn.description,
     xp_details |-> syn.xp_details, synergy |-> syn.synergy,
     total_synergy |-> syn.total_synergy, missions |-> syn.missions,
     rewards |-> syn.rewards]

\* a step that only runs update_synergy again: modify_mission saving the
\* record as it was, right after an operation that ended with update_synergy
SecondUpdateSynergy ==
    /\ last.synced
    /\ last'.op = "modify_mission" /\ last'.refreshed
    /\ missions' = missions /\ egos' = egos /\ rewards' = rewards

\* C5: update_synergy is idempotent: called twice in succession with no
\* change to a character, mission or reward record in between, the second
\* call stores the same summary as the first.
C5_UpdateSynergyIdempotent ==
    [][SecondUpdateSynergy => Summary(synergy') = Summary(synergy)]_vars

\* the handlers that can process a daily-progress file
CheckinOps == {"checkin", "modify_checkin", "process_latest"}

Processed == last.op \in CheckinOps /\ last.processed

\* the milestone table as it was loaded for the last check-in: a rules file
\* that is missing is an empty table
Milestones ==
    IF DOMAIN last.rules = {} THEN NoRules
    ELSE last.rules.streak_milestone_bonus.milestones

BonusesOf(h) ==
    {k \in 1..Len(last.milestone_bonuses) : last.milestone_bonuses[k][1] = h}

\* C6: in a processed check-in the milestone bonus of streak length N is
\* added for a habit if and only if the habit succeeded, its streak went
\* from N-1 to N and N is a key of the milestone table; reaching N+1 next
\* adds nothing unless N+1 is a key; at most one milestone per habit.
C6_MilestoneExactlyOnTransition ==
    Processed =>
        \A h \in Habits :
            LET n == last.habits[h].streak + 1
                success == last.results[h] = "success"
                due == success /\ ToString(n) \in DOMAIN Milestones
            IN /\ Cardinality(BonusesOf(h)) = IF due THEN 1 ELSE 0
               /\ \A k \in BonusesOf(h) :
                    /\ last.milestone_bonuses[k][2] = n
                    /\ last.milestone_bonuses[k][3] = Milestones[ToString(n)].xp_bonus
                    /\ synergy.daily_progress.habits[h].streak = n

\* the streak goes from a milestone length to the next length: no bonus
C6_Witness ==
    /\ Processed
    /\ \E h \in Habits :
        /\ ToString(last.habits[h].streak) \in DOMAIN Milestones
        /\ last.results[h] = "success"
        /\ synergy.daily_progress.habits[h].streak = last.habits[h].streak + 1
        /\ BonusesOf(h) = {}
        /\ last.total_xp_earned > 0

\* C7: a nonzero XP delta is added to current_xp and the level-up loop then
\* subtracts each reached threshold and increments the level, several times
\* in one call if need be; title and xp_to_next_level are then those of the
\* final level's table entry.
C7_LevelUpCascade ==
    XpRequested =>
        /\ CumulativeXp(sEgo) = CumulativeXp(sLast.before) + sLast.changes.xp
        /\ sEgo.level >= sLast.before.level
        /\ (sLast.before.xp_details.current_xp + sLast.changes.xp >= 0
                => sEgo.xp_details.current_xp >= 0)
        /\ (Threshold(sEgo.level) # NoThreshold
                => sEgo.xp_details.current_xp < Threshold(sEgo.level))
        /\ (sEgo.level > sLast.before.level
                => /\ sEgo.title = XpRules.levels[ToString(sEgo.level)].title
                   /\ sEgo.xp_details.xp_to_next_level = Threshold(sEgo.level))

\* two levels gained in one call
C7_Witness ==
    /\ XpRequested
    /\ sLast.before.level = 1
    /\ sEgo.level = 3
    /\ sEgo.title = "Master"

AbilitiesPercent == DailyProgressRules.missed_checkin_penalty.penalties.abilities_percent

\* C8: in a missed-check-in penalty every ability with value v is reduced by
\* max(1, floor(v * |p| / 100)) and floored at 0: an ability >= 1 loses at
\* least 1 point and an ability at 0 stays at 0.
C8_AbilityPenalty ==
    Penalized =>
        \A a \in Archetypes : \A b \in DOMAIN last.egos[a].abilities :
            LET v == last.egos[a].abilities[b]
                w == last.penalized_egos[a].abilities[b]
                loss == Max(1, (v * Abs(AbilitiesPercent)) \div 100)
            IN /\ w = Max(0, v - loss)
               /\ (v >= 1 => w <= v - 1)
               /\ (v = 0 => w = 0)

\* focus 3 with -2 percent becomes 2; strength 150 loses 3
C8_Witness ==
    /\ Penalized
    /\ last.egos["kei"].abilities["focus"] = 3
    /\ last.penalized_egos["kei"].abilities["focus"] = 2
    /\ last.egos["tyler"].abilities["strength"] = 150
    /\ last.penalized_egos["tyler"].abilities["strength"] = 147

\* the habit reward table as it was loaded for the last check-in
HabitRewards ==
    IF DOMAIN last.rules = {} THEN NoRules
    ELSE last.rules.habit_success_reward.habits

RECURSIVE BonusSum(_, _)
BonusSum(bonuses, k) ==
    IF k = 0 THEN 0 ELSE bonuses[k][3] + BonusSum(bonuses, k - 1)

ExpectedXp ==
    SumOver([h \in Habits |->
                IF last.results[h] = "success" /\ h \in DOMAIN HabitRewards
                THEN HabitRewards[h].xp_per_success ELSE 0],
            Habits)
    + BonusSum(last.milestone_bonuses, Len(last.milestone_bonuses))

\* C9: the XP earned by a processed check-in is the sum of the per-success XP
\* of the successful habits plus the milestone bonuses hit; when it is > 0
\* each of the three characters receives that same total before level-up.
C9_SameTotalToEveryCharacter ==
    Processed =>
        /\ last.total_xp_earned = ExpectedXp
        /\ last.total_xp_earned > 0 =>
            \A a \in Archetypes :
                /\ CumulativeXp(egos[a])
                      = CumulativeXp(last.penalized_egos[a]) + last.total_xp_earned
                /\ LET t == LevelEntry(last.xp_rules, egos[a].level).xp_to_next_level
                   IN t # NoThreshold => egos[a].xp_details.current_xp < t

\* workout 4 -> 5, milestone 5 worth 20, per-success XP 10: 30 to each character
C9_Witness ==
    /\ Processed /\ ~last.penalized
    /\ last.habits["workout"].streak = 4
    /\ \A h \in Habits : (last.results[h] = "success") = (h = "workout")
    /\ last.total_xp_earned = 30
    /\ \A a \in Archetypes :
        CumulativeXp(egos[a]) = CumulativeXp(last.egos[a]) + 30

\* C10: in every state reachable by mission completions, mission failures,
\* habit rewards and missed-check-in penalties from characters whose stats
\* are all >= 0, every character's current_xp, current_health,
\* current_energy and every ability are >= 0.
C10_StatsNeverNegative ==
    \A a \in Archetypes : StatsNonNegative(egos[a])

\* C11: the delta bundle returned by apply_stat_changes is the delta actually
\* applied: for health and for energy the returned delta equals the value
\* after the call minus the value before it, also when an overflow reset fires.
C11_ReturnedDeltaIsActual ==
    sLast.called =>
        /\ sLast.delta.health = sEgo.health_details.current_health
                                - sLast.before.health_details.current_health
        /\ sLast.delta.energy = sEgo.energy_details.current_energy
                                - sLast.before.energy_details.current_energy

\* the entries an operation appended to the ledger
Appended(h, h2) == {h2[i] : i \in (Len(h) + 1)..Len(h2)}

\* C12: every operation that changes a character's stored stats (mission
\* completion, mission failure, habit-reward XP of a processed check-in,
\* missed-check-in penalty) appends at least one History Entry for each
\* character it changed, also for a check-in that earns XP without a milestone.
C12_EveryStatChangeRecorded ==
    [][\A a \in Archetypes :
            egos'[a] # egos[a]
                => \E e \in Appended(history, history') : e.alter_ego = a]_vars

\* the check-ins that existed before the one just added
PriorCheckins == DOMAIN checkins \ {last.entry_date}

LatestOf(S) == CHOOSE d \in S : \A e \in S : e <= d

PenaltyThreshold == DailyProgressRules.missed_checkin_penalty.threshold_days

\* a check-in dated today was added and processed, every prompt shown was
\* accepted, and the latest earlier check-in is at least threshold days old
LateCheckinToday ==
    /\ last.op = "checkin" /\ last.processed /\ ~last.declined
    /\ last.entry_date = today
    /\ PriorCheckins # {}
    /\ today - LatestOf(PriorCheckins) >= PenaltyThreshold

\* C13: when a new check-in dated today is added and processed, the latest
\* check-in that existed before it is at least threshold days before today
\* and the operator accepts the prompts, the missed-check-in penalty is
\* applied to the characters before the habit rewards of the new check-in.
C13_PenaltyBeforeRewards ==
    LateCheckinToday =>
        /\ last.penalized
        /\ last.days_missed = today - LatestOf(PriorCheckins)
        /\ \A a \in Archetypes :
              last.penalized_egos[a]
                = PenalizeEgo(last.egos[a],
                              DailyProgressRules.missed_checkin_penalty.penalties)

\* C14: after every call of update_synergy the total XP stored in the synergy
\* summary (xp_details.current_xp) equals the sum of the current_xp of the
\* three characters as stored at the time of the call.
C14_SynergyXpIsSum ==
    last.synced => synergy.xp_details.current_xp = calculate_synergy_xp(egos)

MissionOp == last.op \in {"mission_completed", "mission_failed"}

\* the bundle of the mission outcome just recorded
OutcomeBundle == last.bundle

RulesAbsent == MissionOp /\ DOMAIN last.xp_rules = {}

\* C15: a missing or unparsable XP rules document is treated as an empty
\* rules table: a mission marked completed or failed while it is absent still
\* has its health, energy and ability deltas applied to the character
\* (overflow reset 20 / bonus 10, no level-up) and its History Entry appended.
C15_MissingRulesStillApplies ==
    RulesAbsent =>
        /\ egos[last.archetype]
              = apply_stat_changes(last.egos[last.archetype], OutcomeBundle, NoRules).ego
        /\ Len(history) = Len(last.history) + 1
        /\ history[Len(history)].alter_ego = last.archetype
        /\ history[Len(history)].mission_associated = last.mission

\* the ability keys of the last bundle that the character does not have
UnknownKeys ==
    IF sLast.called /\ HasKey(sLast.changes, "abilities")
    THEN {a \in DOMAIN sLast.changes.abilities : a \notin DOMAIN sLast.before.abilities}
    ELSE {}

\* the last bundle with its unknown ability keys removed
KnownOnly ==
    [sLast.changes EXCEPT !.abilities =
        [a \in DOMAIN sLast.changes.abilities \ UnknownKeys |->
            sLast.changes.abilities[a]]]

\* C16: an ability key of the delta bundle that the character does not have
\* is skipped: no ability is added to the character, the key is not in the
\* returned delta, and xp, health, energy and the known abilities are applied
\* exactly as if the unknown key were absent.
C16_UnknownAbilitySkipped ==
    UnknownKeys # {} =>
        /\ DOMAIN sEgo.abilities = DOMAIN sLast.before.abilities
        /\ DOMAIN sLast.delta.abilities \cap UnknownKeys = {}
        /\ \A a \in DOMAIN sEgo.abilities :
              sEgo.abilities[a]
                = sLast.before.abilities[a]
                  + (IF a \in DOMAIN sLast.changes.abilities
                     THEN sLast.changes.abilities[a] ELSE 0)
        /\ LET r == apply_stat_changes(sLast.before, KnownOnly, XpRules)
           IN sEgo = r.ego /\ sLast.delta = r.delta

\* xp, health, energy and two known abilities around the unknown "focus"
C16_Witness ==
    /\ sLast.called
    /\ "focus" \in UnknownKeys /\ sLast.changes.abilities["focus"] # 0
    /\ HasKey(sLast.changes, "xp") /\ sLast.changes.xp = 30
    /\ sEgo.abilities["discipline"] = sLast.before.abilities["discipline"] + 3
    /\ sEgo.abilities["honor"] = sLast.before.abilities["honor"] - 1
    /\ DOMAIN sLast.delta.abilities = {"discipline", "honor"}
    /\ sEgo.health_details.current_health # sLast.before.health_details.current_health

PenaltyCalled == last.op = "penalty"

\* whole days between the latest daily-progress file and today
DaysElapsed == today - LatestOf(DOMAIN checkins)

\* there is a latest check-in and its file parses
LatestLoads ==
    DOMAIN checkins # {} /\ DOMAIN checkins[LatestOf(DOMAIN checkins)] # {}

\* C17: when the days elapsed since the last check-in are fewer than the
\* configured threshold, apply_missed_checkin_penalty returns false and leaves
\* every character record, the ledger and the synergy summary unchanged; with
\* no check-in at all the penalty always triggers.
C17_BelowThresholdNoOp ==
    PenaltyCalled =>
        /\ (LatestLoads /\ DaysElapsed < PenaltyThreshold)
              => /\ ~last.applied
                 /\ egos = last.egos
                 /\ history = last.history
                 /\ synergy = last.synergy
        /\ DOMAIN checkins = {}
              => /\ last.applied
                 /\ Len(history) > Len(last.history)

PenaltyApplied == PenaltyCalled /\ last.applied

\* the ledger entries appended by the last call, in append order
NewEntries == SubSeq(history, Len(last.history) + 1, Len(history))

\* C18: when the days elapsed reach the threshold, apply_missed_checkin_penalty
\* penalizes every stored character, appends exactly one History Entry per
\* character (event type missed_checkin_penalty, the days missed, the
\* post-penalty snapshot), leaves level and title unchanged, runs
\* update_synergy once after all characters, and returns true.
C18_PenaltyRecordsEachCharacter ==
    /\ (PenaltyCalled
            /\ (DOMAIN checkins = {} \/ (LatestLoads /\ DaysElapsed >= PenaltyThreshold)))
          => last.applied
    /\ PenaltyApplied =>
          /\ Len(NewEntries) = Len(ArchetypeOrder)
          /\ \A i \in 1..Len(NewEntries) :
                LET e == NewEntries[i]
                    a == ArchetypeOrder[i]
                IN /\ e.alter_ego = a
                   /\ e.event_type = "missed_checkin_penalty"
                   /\ e.days_missed = IF LatestLoads THEN DaysElapsed
                                      ELSE NoCheckinDays
                   /\ e.state_after_delta_applied = Snapshot(egos[a])
          /\ \A a \in Archetypes :
                /\ egos[a] = PenalizeEgo(last.egos[a],
                                DailyProgressRules.missed_checkin_penalty.penalties)
                /\ egos[a].level = last.egos[a].level
                /\ egos[a].title = last.egos[a].title
          /\ synergy.synergy = calculate_synergy_stats(egos)
          /\ Summary(synergy)
                = Summary(update_synergy(last.synergy, egos, missions, rewards))

HabitState(h) == synergy.daily_progress.habits[h]

\* the streak record update_habit_streak_in_synergy is specified to store
ExpectedHabit(before, outcome) ==
    IF outcome = "success"
    THEN [streak |-> before.streak + 1,
          best_streak |-> Max(before.best_streak, before.streak + 1),
          total_success |-> before.total_success + 1,
          total_failures |-> before.total_failures]
    ELSE [streak |-> 0,
          best_streak |-> before.best_streak,
          total_success |-> before.total_success,
          total_failures |-> before.total_failures + 1]

StreaksUpdated ==
    \A h \in Habits : HabitState(h) = ExpectedHabit(last.habits[h], last.results[h])

\* C19: for every tracked habit and every processed check-in, success sets
\* streak to streak + 1, total_success to total_success + 1 and best_streak to
\* max(best_streak, new streak); any other outcome sets streak to 0 and adds 1
\* to the failure counter, leaving best_streak and total_success unchanged.
\* Hence best_streak >= streak always and best_streak never decreases.
C19_StreakUpdate ==
    /\ [](Processed => StreaksUpdated)
    /\ [](\A h \in Habits : HabitState(h).best_streak >= HabitState(h).streak)
    /\ [][\A h \in Habits :
            synergy'.daily_progress.habits[h].best_streak
                >= HabitState(h).best_streak]_vars

ZeroXpCheckin == Processed /\ last.total_xp_earned = 0

\* C20: when a processed check-in earns a total XP of 0, apply_habit_rewards
\* still updates the streak state of every habit, but changes no character
\* record, appends nothing to the ledger and does not run update_synergy.
C20_ZeroXpOnlyStreaks ==
    ZeroXpCheckin =>
        /\ StreaksUpdated
        /\ egos = last.penalized_egos
        /\ history = last.before_rewards.history
        /\ Summary(synergy) = Summary(last.before_rewards.synergy)

\* the requested delta alone takes the stat to its maximum or past it
HealthOverflows(b, ch) ==
    /\ HasKey(ch, "health") /\ ch.health # 0
    /\ b.health_details.current_health + ch.health >= b.health_details.max_health

EnergyOverflows(b, ch) ==
    /\ HasKey(ch, "energy") /\ ch.energy # 0
    /\ b.energy_details.current_energy + ch.energy >= b.energy_details.max_energy

Requested(ch, k) == IF HasKey(ch, k) THEN ch[k] ELSE 0

\* C21: within one apply_stat_changes call the bonus a stat receives from the
\* other stat's overflow never takes part in an overflow check of the
\* receiving stat: a call in which health overflows never also resets energy
\* because of the bonus received, also when both deltas are requested.
C21_NoSecondOrderOverflow ==
    sLast.called =>
        LET b == sLast.before
            ch == sLast.changes
        IN /\ (HealthOverflows(b, ch) /\ ~EnergyOverflows(b, ch))
                => sEgo.energy_details.current_energy
                     = b.energy_details.current_energy + Requested(ch, "energy")
                       + Overflow.overflow_bonus_to_other_stat
           /\ (EnergyOverflows(b, ch) /\ ~HealthOverflows(b, ch))
                => sEgo.health_details.current_health
                     = b.health_details.current_health + Requested(ch, "health")
                       + Overflow.overflow_bonus_to_other_stat

\* C22: on a health overflow current_health is reset to the configured reset
\* percentage taken of max_health, max_health * reset_percentage / 100, for
\* every value of max_health; the same holds for energy and max_energy.
C22_ResetIsPercentageOfMax ==
    sLast.called =>
        LET b == sLast.before
            ch == sLast.changes
        IN /\ (HealthOverflows(b, ch) /\ Requested(ch, "energy") = 0)
                => sEgo.health_details.current_health
                     = (b.health_details.max_health
                        * Overflow.overflow_reset_percentage) \div 100
           /\ EnergyOverflows(b, ch)
                => sEgo.energy_details.current_energy
                     = (b.energy_details.max_energy
                        * Overflow.overflow_reset_percentage) \div 100

\* an operation whose only write to synergy.json is update_synergy
OnlyUpdatesSynergy == last'.op \notin CheckinOps

RewardedCheckin == Processed /\ last.total_xp_earned > 0

\* C23: update_synergy leaves the daily-progress part of the synergy record
\* (habit streaks, best streaks, counters, check-in streak, days checked in)
\* as stored before the call, and no streak update written during a check-in
\* is lost when update_synergy runs at the end of that check-in.
C23_UpdateSynergyKeepsDailyProgress ==
    /\ [][OnlyUpdatesSynergy => synergy'.daily_progress = synergy.daily_progress]_vars
    /\ [](Processed =>
            last.before_rewards.synergy.daily_progress.habits = last.habits)
    /\ [](RewardedCheckin =>
            /\ StreaksUpdated
            /\ synergy.daily_progress.daily_progress_streak
                  = last.before_rewards.synergy.daily_progress.daily_progress_streak + 1
            /\ synergy.daily_progress.days_checked_in
                  = last.before_rewards.synergy.daily_progress.days_checked_in + 1)

\* a penalized, rewarded check-in: update_synergy ran twice around the
\* streak updates, one streak grew and another was reset
C23_Witness ==
    /\ RewardedCheckin /\ last.penalized
    /\ Summary(synergy) # Summary(last.before_rewards.synergy)
    /\ \E h \in Habits : HabitState(h).streak = last.habits[h].streak + 1
    /\ \E h \in Habits : last.habits[h].streak > 0 /\ HabitState(h).streak = 0

IsPrefix(h1, h2) ==
    /\ Len(h1) <= Len(h2)
    /\ \A i \in 1..Len(h1) : h2[i] = h1[i]

\* C24: the history ledger is append-only: for every operation the ledger
\* stored before it is a prefix of the ledger stored after it; no entry is
\* changed, reordered or removed and entries stay in insertion order.
C24_LedgerAppendOnly ==
    [][IsPrefix(history, history')]_vars

\* an operation appended several entries behind entries of another kind
C24_Witness ==
    /\ last.op \in {"checkin", "mission_completed", "mission_failed"}
    /\ Len(last.history) >= 1
    /\ Len(history) >= Len(last.history) + 2
    /\ EntryKind(history[1]) # EntryKind(history[Len(history)])
    /\ history[1].alter_ego # ArchetypeOrder[1]

LoopDone == lvl.pc = "done"

\* C25: the level-up loop of apply_stat_changes always terminates: for every
\* finite level table with positive thresholds and every XP delta it stops
\* when the new level has no xp_to_next_level entry or when current_xp is
\* below the threshold; on exit with a defined threshold, current_xp is below
\* the xp_to_next_level of the current level.
C25_LevelUpLoopTerminates ==
    /\ <>LoopDone
    /\ [](LoopDone /\ lvl.xp_change # 0 =>
            LET t == LevelEntry(lvl.rules, lvl.ego.level).xp_to_next_level
            IN /\ (t = NoThreshold \/ lvl.ego.xp_details.current_xp < t)
               /\ lvl.ego.level > lvl.start.level
                     => lvl.ego.xp_details.xp_to_next_level = t
               /\ lvl.ego = ApplyXp(lvl.start, lvl.xp_change, lvl.rules))

\* the loop ran three times and stopped at a level missing from the table
C25_Witness ==
    /\ LoopDone
    /\ lvl.ego.level = lvl.start.level + 3
    /\ LevelEntry(lvl.rules, 3).xp_to_next_level # NoThreshold
    /\ lvl.ego.xp_details.current_xp > 0

IndexesUnique ==
    \A i, j \in 1..Len(history) :
        history[i].history_index = history[j].history_index => i = j

\* C26: the ledger's read-modify-write is not guarded: when two processes
\* each run get_next_history_index and then record_history and their steps
\* interleave, both can append an entry with the same history_index; indexes
\* are unique only under sequential execution (read while the file is
\* whole: a writer leaves it empty between open(..., 'w') and json.dump).
C26_IndexesUniqueWhenSequential ==
    ~procs.overlapped /\ ~procs.torn =>
        /\ IndexesUnique
        /\ Len(history) = procs.appended[1] + procs.appended[2]

\* both processes have appended and two entries of different processes
\* carry the same index
C26_Witness ==
    /\ procs.overlapped
    /\ \E i, j \in 1..Len(history) :
          /\ i # j
          /\ history[i].history_index = history[j].history_index
          /\ history[i].alter_ego # history[j].alter_ego

\* the tally the claim gives to a mission record
Tallied(m) ==
    IF m.folder = "completed"
    THEN IF StatusOr(missions[m], "completed") = "failed" THEN "failed" ELSE "completed"
    ELSE StatusOr(missions[m], "not-started")

\* C27: after update_synergy, missions.total is the number of mission records
\* of the not-completed and the completed set together; a not-completed record
\* without a status is tallied as not-started; a record of the completed set is
\* tallied as failed when its status is failed and as completed otherwise; so
\* total = completed + failed + not-started + in-progress.
C27_MissionCountsAddUp ==
    last.synced =>
        LET c == synergy.missions
        IN /\ c.total = Cardinality(DOMAIN missions)
           /\ \A k \in CountKeys \ {"total"} :
                 c[k] = Cardinality({m \in DOMAIN missions : Tallied(m) = k})
           /\ c.total = c.completed + c.failed + c["not-started"] + c["in-progress"]

\* a pass of one of the two kinds has run and changed the characters
PenaltyPass == last.op = "penalty" /\ last.applied

HabitPass == last.op = "habits" /\ last.applied

Penalties == DailyProgressRules.missed_checkin_penalty.penalties

\* the positions in the character order whose record loads
LoadedOrder(es) == SelectSeq(ArchetypeOrder, LAMBDA a : Loaded(es[a]))

\* C28: when the record of one character is missing during a missed-check-in
\* penalty pass or a habit-reward pass, that character alone is skipped, the
\* characters before and after it are updated and persisted, and in the
\* penalty pass every updated character still gets its History Entry.
C28_MissingCharacterSkipped ==
    /\ (PenaltyPass \/ HabitPass) =>
          \A a \in Archetypes : ~Loaded(last.egos[a]) => egos[a] = last.egos[a]
    /\ PenaltyPass =>
          /\ \A a \in Archetypes : Loaded(last.egos[a]) =>
                /\ egos[a].xp_details.current_xp
                      = Max(0, last.egos[a].xp_details.current_xp + Penalties.xp)
                /\ egos[a].health_details.current_health
                      = Max(0, last.egos[a].health_details.current_health
                               + Penalties.health)
                /\ egos[a].energy_details.current_energy
                      = Max(0, last.egos[a].energy_details.current_energy
                               + Penalties.energy)
          /\ Len(NewEntries) = Len(LoadedOrder(last.egos))
          /\ \A i \in 1..Len(NewEntries) :
                LET a == LoadedOrder(last.egos)[i]
                IN /\ NewEntries[i].alter_ego = a
                   /\ NewEntries[i].event_type = "missed_checkin_penalty"
                   /\ NewEntries[i].state_after_delta_applied = Snapshot(egos[a])
    /\ HabitPass =>
          \A a \in Archetypes : Loaded(last.egos[a]) =>
                CumulativeXp(egos[a])
                    = CumulativeXp(last.egos[a]) + last.total_xp_earned

\* the second character of the order is missing; the first and the third were
\* penalized and recorded
C28_Witness ==
    /\ PenaltyPass
    /\ ~Loaded(last.egos[ArchetypeOrder[2]])
    /\ Len(NewEntries) = 2
    /\ NewEntries[1].alter_ego = ArchetypeOrder[1]
    /\ NewEntries[2].alter_ego = ArchetypeOrder[3]
    /\ egos[ArchetypeOrder[1]] # last.egos[ArchetypeOrder[1]]
    /\ egos[ArchetypeOrder[3]] # last.egos[ArchetypeOrder[3]]
    \* an earlier pass has written entries, the record was missing then too
    /\ Len(last.history) > 0
    /\ ~Loaded(egos[ArchetypeOrder[2]])

BelowMax(ego) ==
    /\ ego.health_details.current_health < ego.health_details.max_health
    /\ ego.energy_details.current_energy < ego.energy_details.max_energy

\* C29: after any apply_stat_changes call on a character that had
\* current_health < max_health and current_energy < max_energy before the
\* call, both still hold after it, also when one stat receives the overflow
\* bonus of the other.
C29_OverflowKeepsBelowMax ==
    (sLast.called /\ BelowMax(sLast.before)) => BelowMax(sEgo)

\* the names a mission file gets from the titles in use
MissionNames == {title_to_filename(t) : t \in {"Fight Club", "Project Mayhem"}}

\* the ledger entries that record an outcome of the mission with code m,
\* under any name of its file
OutcomeEntries(m) ==
    {i \in 1..Len(history) :
        /\ "mission_associated" \in DOMAIN history[i]
        /\ \E n \in MissionNames :
              history[i].mission_associated = Stem([folder |-> "", code |-> m, name |-> n])}

\* C30: the outcome bundle of a mission is applied to its character at most
\* once over any sequence of menu operations, also when modify_mission moves
\* the record between the sets.
C30_OutcomeAppliedAtMostOnce ==
    \A m \in {f.code : f \in DOMAIN missions} : Cardinality(OutcomeEntries(m)) <= 1

====
